---- MODULE Spec2Model ----
(***************************************************************************)
(* Invoice manager: storage layer (src/src/db/mod.rs), the Navigator      *)
(* (src/src/main.rs) and the UI components (src/src/ui).                   *)
(*                                                                         *)
(* Strings are sequences of one-character strings; Option<T> is a sequence *)
(* of length 0 (None) or 1 (Some).  An f64 is a sign, a decimal mantissa   *)
(* and a power of ten.                                                     *)
(***************************************************************************)
EXTENDS Integers, Sequences, FiniteSets, TLC

VARIABLES
    db,                     \* committed rows of the five tables
    serial,                 \* the id sequences of the five tables
    tx,                     \* the open cascade-delete transaction, if any
    res,                    \* result of the last storage call made directly
    screen,                 \* AppState.screen
    profiles_state,         \* AppState.profiles_state        (Option)
    profile_wizard_state,   \* AppState.profile_wizard_state  (Option)
    clients_state,          \* AppState.clients_state         (Option)
    client_wizard_state,    \* AppState.client_wizard_state   (Option)
    projects_state,         \* AppState.projects_state        (Option)
    project_wizard_state,   \* AppState.project_wizard_state  (Option)
    invoices_state,         \* AppState.invoices_state        (Option)
    invoice_wizard_state,   \* AppState.invoice_wizard_state  (Option)
    files,                  \* generated invoice files present on disk
    emitted,                \* what the component's handle_input returned last
    ops,                    \* storage calls made by the last handler, in order
    exit,                   \* "running", "quit" (Ok(true)) or "error" (Err)
    sessions                \* wizard sessions opened so far

vars == <<db, serial, tx, res, screen, profiles_state, profile_wizard_state,
          clients_state, client_wizard_state, projects_state,
          project_wizard_state, invoices_state, invoice_wizard_state,
          files, emitted, ops, exit, sessions>>

navVars == <<screen, profiles_state, profile_wizard_state, clients_state,
             client_wizard_state, projects_state, project_wizard_state,
             invoices_state, invoice_wizard_state, files, emitted, ops, exit,
             sessions>>

----------------------------------------------------------------------------
(* Bounds *)

\* profiles in an initial tree of the storage specification
MaxProfiles == 2
\* children per node in an initial tree of the storage specification
MaxFan == 2

----------------------------------------------------------------------------
(* Values *)

None == <<>>
Some(v) == <<v>>
IsSome(o) == Len(o) = 1
Unwrap(o) == o[1]

Str0 == <<>>
Word == <<"s">>

Date(y, m, d) == [y |-> y, m |-> m, d |-> d]

\* chrono::Local::now().date_naive() as read by the wizards
Today == Date(2024, 2, 27)

MinOf(S) == CHOOSE x \in S : \A y \in S : x <= y

----------------------------------------------------------------------------
(* Text and numbers *)

IndexOf(seq, x) == CHOOSE i \in 1..Len(seq) : seq[i] = x

\* String::pop
Pop(s) == IF s = <<>> THEN s ELSE SubSeq(s, 1, Len(s) - 1)

Digits == <<"0", "1", "2", "3", "4", "5", "6", "7", "8", "9">>
IsDigit(c) == \E i \in 1..Len(Digits) : Digits[i] = c
DigitValue(c) == IndexOf(Digits, c) - 1

\* str::parse of a string of decimal digits
RECURSIVE ParseDigits(_)
ParseDigits(s) ==
    IF s = <<>> THEN 0
    ELSE 10 * ParseDigits(SubSeq(s, 1, Len(s) - 1)) + DigitValue(s[Len(s)])

\* the decimal digits of n >= 0
RECURSIVE DigitsOf(_)
DigitsOf(n) ==
    IF n < 10 THEN <<Digits[n + 1]>>
    ELSE Append(DigitsOf(n \div 10), Digits[(n % 10) + 1])

\* an f64 that is a short decimal: (-1)^neg * m * 10^e, m without trailing
\* zeros.  The inputs below are short enough never to round or overflow.
RECURSIVE F64(_, _, _)
F64(neg, m, e) ==
    IF m = 0 THEN [neg |-> neg, m |-> 0, e |-> 0]
    ELSE IF m % 10 = 0 THEN F64(neg, m \div 10, e + 1)
    ELSE [neg |-> neg, m |-> m, e |-> e]

Num(n) == F64(FALSE, n, 0)

\* x > 0.0
Positive(x) == ~x.neg /\ x.m > 0

Zeros(n) == [i \in 1..n |-> "0"]

\* f64::to_string (Display: never an exponent, "-0" for negative zero)
F64ToString(x) ==
    LET ds == DigitsOf(x.m)
        k == 0 - x.e
        body == IF x.e >= 0 THEN ds \o Zeros(x.e)
                ELSE IF Len(ds) > k
                     THEN SubSeq(ds, 1, Len(ds) - k) \o <<".">>
                            \o SubSeq(ds, Len(ds) - k + 1, Len(ds))
                     ELSE <<"0", ".">> \o Zeros(k - Len(ds)) \o ds
    IN  IF x.neg THEN <<"-">> \o body ELSE body

\* the position of the first element of s that is in set, or 0
FirstIn(s, set) ==
    IF \E i \in 1..Len(s) : s[i] \in set
    THEN CHOOSE i \in 1..Len(s) :
            s[i] \in set /\ \A k \in 1..(i - 1) : s[k] \notin set
    ELSE 0

AllDigits(s) == \A i \in 1..Len(s) : IsDigit(s[i])

Tail0(s, n) == SubSeq(s, n + 1, Len(s))

\* str::parse::<f64>: [sign] digits [. digits] [e [sign] digits] with a
\* digit in the mantissa; None is Err.  ("inf", "infinity" and "nan", which
\* f64 also accepts, cannot be spelled with the keys drawn below.)
ParseF64(s) ==
    LET signed == s # <<>> /\ s[1] \in {"+", "-"}
        neg  == signed /\ s[1] = "-"
        body == IF signed THEN Tail0(s, 1) ELSE s
        epos == FirstIn(body, {"e", "E"})
        mant == IF epos = 0 THEN body ELSE SubSeq(body, 1, epos - 1)
        expo == IF epos = 0 THEN <<>> ELSE Tail0(body, epos)
        esigned == expo # <<>> /\ expo[1] \in {"+", "-"}
        edigits == IF esigned THEN Tail0(expo, 1) ELSE expo
        dot  == FirstIn(mant, {"."})
        int  == IF dot = 0 THEN mant ELSE SubSeq(mant, 1, dot - 1)
        frac == IF dot = 0 THEN <<>> ELSE Tail0(mant, dot)
        ok   == /\ AllDigits(int) /\ AllDigits(frac)
                /\ Len(int) + Len(frac) > 0
                /\ epos # 0 => (edigits # <<>> /\ AllDigits(edigits))
        ex   == IF epos = 0 THEN 0
                ELSE IF esigned /\ expo[1] = "-" THEN 0 - ParseDigits(edigits)
                ELSE ParseDigits(edigits)
    IN  IF ok THEN <<F64(neg, ParseDigits(int \o frac), ex - Len(frac))>>
        ELSE <<>>

----------------------------------------------------------------------------
(* Rows (src/src/models) *)

Profile(id, name, phonenumber, address, email, bank_name, acct, routing) ==
    [id |-> id, name |-> name, phonenumber |-> phonenumber,
     address |-> address, email |-> email, bank_name |-> bank_name,
     bank_account_number |-> acct, bank_routing_number |-> routing]

Client(id, name, phone, address, email, profile_id) ==
    [id |-> id, name |-> name, phone |-> phone, address |-> address,
     email |-> email, profile_id |-> profile_id]

Project(id, client_id, name, start_date, end_date) ==
    [id |-> id, client_id |-> client_id, name |-> name,
     start_date |-> start_date, end_date |-> end_date]

Invoice(id, project_id, number, submit_date, due_date, rate, status) ==
    [id |-> id, project_id |-> project_id, number |-> number,
     submit_date |-> submit_date, due_date |-> due_date, rate |-> rate,
     status |-> status]

InvoiceLineItem(id, invoice_id, description, hours) ==
    [id |-> id, invoice_id |-> invoice_id, description |-> description,
     hours |-> hours]

----------------------------------------------------------------------------
(* Storage: the statements of src/src/db/mod.rs over a set of tables *)

EmptyDb == [profiles |-> {}, clients |-> {}, projects |-> {},
            invoices |-> {}, items |-> {}]

\* SELECT * FROM clients WHERE profile_id = $1
SelectClientsOfProfile(t, id) == {c \in t.clients : c.profile_id = id}

\* SELECT * FROM projects WHERE client_id = $1
SelectProjectsOfClient(t, id) == {p \in t.projects : p.client_id = id}

\* (mutant: the line items are left behind)
DeleteItemsOfProjectSkipped(t, project_id) == t

\* DELETE FROM invoice_line_item WHERE invoice_id IN
\*   (SELECT id FROM invoices WHERE project_id = $1)
DeleteItemsOfProject(t, project_id) ==
    [t EXCEPT !.items =
        {l \in @ : ~ \E i \in t.invoices :
                        i.project_id = project_id /\ l.invoice_id = i.id}]

\* DELETE FROM invoices WHERE project_id = $1
DeleteInvoicesOfProject(t, project_id) ==
    [t EXCEPT !.invoices = {i \in @ : i.project_id # project_id}]

\* DELETE FROM projects WHERE client_id = $1
DeleteProjectsOfClient(t, client_id) ==
    [t EXCEPT !.projects = {p \in @ : p.client_id # client_id}]

\* (mutant: DELETE FROM clients, without the WHERE clause)
DeleteClientsOfProfileUnfiltered(t, profile_id) == [t EXCEPT !.clients = {}]

\* DELETE FROM clients WHERE profile_id = $1
DeleteClientsOfProfile(t, profile_id) ==
    [t EXCEPT !.clients = {c \in @ : c.profile_id # profile_id}]

\* DELETE FROM profiles WHERE id = $1
DeleteProfileRow(t, id) == [t EXCEPT !.profiles = {p \in @ : p.id # id}]

\* DELETE FROM clients WHERE id = $1
DeleteClientRow(t, id) == [t EXCEPT !.clients = {c \in @ : c.id # id}]

\* Database::delete_project: DELETE FROM projects WHERE id = $1
delete_project(t, id) == [t EXCEPT !.projects = {p \in @ : p.id # id}]

\* Database::delete_invoice: DELETE FROM invoices WHERE id = $1
delete_invoice(t, id) == [t EXCEPT !.invoices = {i \in @ : i.id # id}]

----------------------------------------------------------------------------
(* Cascade-delete transactions: Database::delete_profile / delete_client   *)
(* as a program over a working copy t of the tables.  pc names the next    *)
(* statement; clients and projects are the rows still to be iterated.      *)

\* (mutant: the project loop's body is never entered)
AfterProjectsSkipped(projects) == "delete_projects"

\* where the project loop goes: next project's first statement, or the
\* statement after the loop
AfterProjects(projects) ==
    IF projects = {} THEN "delete_projects" ELSE "delete_items"

\* where the client loop of delete_profile goes
AfterClients(clients) ==
    IF clients = {} THEN "delete_clients" ELSE "select_projects"

\* let mut tx = self.pool.begin().await?
TxBegin(kind, id, t) ==
    [kind |-> kind, id |-> id, t |-> t, clients |-> {}, projects |-> {},
     pc |-> IF kind = "profile" THEN "select_clients" ELSE "select_projects"]

\* the client whose projects are being deleted
TxClient(x) == IF x.kind = "profile" THEN MinOf(x.clients) ELSE x.id

\* One statement of the transaction.
TxStep(x) ==
    CASE x.pc = "select_clients" ->
            LET cs == {c.id : c \in SelectClientsOfProfile(x.t, x.id)}
            IN  [x EXCEPT !.clients = cs, !.pc = AfterClients(cs)]
      [] x.pc = "select_projects" ->
            LET ps == {p.id : p \in SelectProjectsOfClient(x.t, TxClient(x))}
            IN  [x EXCEPT !.projects = ps, !.pc = AfterProjects(ps)]
      [] x.pc = "delete_items" ->
            [x EXCEPT !.t = DeleteItemsOfProject(@, MinOf(x.projects)),
                      !.pc = "delete_invoices"]
      [] x.pc = "delete_invoices" ->
            LET rest == x.projects \ {MinOf(x.projects)}
            IN  [x EXCEPT !.t = DeleteInvoicesOfProject(@, MinOf(x.projects)),
                          !.projects = rest,
                          !.pc = AfterProjects(rest)]
      [] x.pc = "delete_projects" ->
            IF x.kind = "profile"
            THEN LET rest == x.clients \ {TxClient(x)}
                 IN  [x EXCEPT !.t = DeleteProjectsOfClient(@, TxClient(x)),
                               !.clients = rest,
                               !.pc = AfterClients(rest)]
            ELSE [x EXCEPT !.t = DeleteProjectsOfClient(@, x.id),
                           !.pc = "delete_root"]
      [] x.pc = "delete_clients" ->
            [x EXCEPT !.t = DeleteClientsOfProfile(@, x.id),
                      !.pc = "delete_root"]
      [] x.pc = "delete_root" ->
            [x EXCEPT !.t = IF x.kind = "profile"
                            THEN DeleteProfileRow(@, x.id)
                            ELSE DeleteClientRow(@, x.id),
                      !.pc = "commit"]
      [] x.pc = "commit" -> [x EXCEPT !.pc = "committed"]
      [] OTHER -> x

RECURSIVE TxRun(_)
TxRun(x) == IF x.pc = "committed" THEN x ELSE TxRun(TxStep(x))

\* Database::delete_profile, run to its commit
delete_profile(t, id) == TxRun(TxBegin("profile", id, t)).t

\* Database::delete_client, run to its commit
delete_client(t, id) == TxRun(TxBegin("client", id, t)).t

----------------------------------------------------------------------------
(* Text and ordering *)

\* the characters the keyboard can produce here, in code-point order
Alphabet == <<"-", ".", "0", "1", "2", "3", "4", "5", "6", "7", "8", "9",
              "@", "a", "d", "e", "m", "n", "q", "s", "x", "y">>

Rank(c) == CHOOSE i \in 1..Len(Alphabet) : Alphabet[i] = c

\* a < b for strings
StrLess(a, b) ==
    \E i \in 1..(Len(b)) :
        /\ \A k \in 1..(i - 1) : k <= Len(a) /\ a[k] = b[k]
        /\ \/ i = Len(a) + 1
           \/ i <= Len(a) /\ Rank(a[i]) < Rank(b[i])

DateLess(a, b) ==
    \/ a.y < b.y
    \/ a.y = b.y /\ a.m < b.m
    \/ a.y = b.y /\ a.m = b.m /\ a.d < b.d

\* ORDER BY name ASC (rows of equal name in id order)
NameBefore(a, b) == StrLess(a.name, b.name) \/ (a.name = b.name /\ a.id < b.id)

\* ORDER BY submit_date DESC (rows of equal date in id order)
SubmitBefore(a, b) ==
    \/ DateLess(b.submit_date, a.submit_date)
    \/ a.submit_date = b.submit_date /\ a.id < b.id

RECURSIVE OrderByName(_)
OrderByName(S) ==
    IF S = {} THEN <<>>
    ELSE LET f == CHOOSE r \in S : \A o \in S \ {r} : NameBefore(r, o)
         IN  <<f>> \o OrderByName(S \ {f})

RECURSIVE OrderBySubmitDesc(_)
OrderBySubmitDesc(S) ==
    IF S = {} THEN <<>>
    ELSE LET f == CHOOSE r \in S : \A o \in S \ {r} : SubmitBefore(r, o)
         IN  <<f>> \o OrderBySubmitDesc(S \ {f})

RECURSIVE OrderById(_)
OrderById(S) ==
    IF S = {} THEN <<>>
    ELSE LET f == CHOOSE r \in S : \A o \in S : r.id <= o.id
         IN  <<f>> \o OrderById(S \ {f})

----------------------------------------------------------------------------
(* Storage: queries and single-row writes of src/src/db/mod.rs *)

\* fetch_one: Some(row) or None when no row has the id (an Err for the caller)
FetchOne(rows, id) ==
    IF \E r \in rows : r.id = id
    THEN Some(CHOOSE r \in rows : r.id = id)
    ELSE None

load_profiles(t) == OrderByName(t.profiles)
load_clients_by_profile(t, profile_id) ==
    OrderByName({c \in t.clients : c.profile_id = profile_id})
load_projects_by_client(t, client_id) ==
    OrderByName({p \in t.projects : p.client_id = client_id})
load_invoices_by_project(t, project_id) ==
    OrderBySubmitDesc({i \in t.invoices : i.project_id = project_id})
get_line_items_by_invoice(t, invoice_id) ==
    OrderById({l \in t.items : l.invoice_id = invoice_id})

get_profile(t, id) == FetchOne(t.profiles, id)
get_client(t, id) == FetchOne(t.clients, id)
get_project(t, id) == FetchOne(t.projects, id)
get_invoice(t, id) == FetchOne(t.invoices, id)

\* INSERT ... RETURNING id: the row is stored under the sequence's next id
create_profile(t, id, p) ==
    [t EXCEPT !.profiles = @ \cup {[p EXCEPT !.id = id]}]
\* (mutant: the INSERT is lost)
create_client_lost(t, id, c) == t

create_client(t, id, c) ==
    [t EXCEPT !.clients = @ \cup {[c EXCEPT !.id = id]}]
create_project(t, id, p) ==
    [t EXCEPT !.projects = @ \cup {[p EXCEPT !.id = id]}]

\* UPDATE profiles SET <all seven columns> WHERE id = $8
update_profile(t, p) ==
    [t EXCEPT !.profiles = {IF r.id = p.id THEN p ELSE r : r \in @}]

\* UPDATE clients SET name, phone, address, email WHERE id = $5
update_client(t, c) ==
    [t EXCEPT !.clients =
        {IF r.id = c.id
         THEN [r EXCEPT !.name = c.name, !.phone = c.phone,
                        !.address = c.address, !.email = c.email]
         ELSE r : r \in @}]

\* UPDATE projects SET name, start_date, end_date WHERE id = $4
update_project(t, p) ==
    [t EXCEPT !.projects =
        {IF r.id = p.id
         THEN [r EXCEPT !.name = p.name, !.start_date = p.start_date,
                        !.end_date = p.end_date]
         ELSE r : r \in @}]

\* Database::save_invoice_with_line_items, committed: the invoice is
\* inserted under invoice_id (invoice.id = 0) or updated (submit_date,
\* due_date, rate, status), an updated invoice's line items are deleted, and
\* line_items are inserted under the ids first_item, first_item + 1, ...
save_invoice_with_line_items(t, invoice_id, first_item, invoice, line_items) ==
    LET id  == IF invoice.id = 0 THEN invoice_id ELSE invoice.id
        inv == IF invoice.id = 0
               THEN t.invoices \cup {[invoice EXCEPT !.id = id]}
               ELSE {IF r.id = id
                     THEN [r EXCEPT !.submit_date = invoice.submit_date,
                                    !.due_date = invoice.due_date,
                                    !.rate = invoice.rate,
                                    !.status = invoice.status]
                     ELSE r : r \in t.invoices}
        old == IF invoice.id > 0
               THEN {l \in t.items : l.invoice_id # id}
               ELSE t.items
        new == {InvoiceLineItem(first_item + k - 1, id,
                                line_items[k].description, line_items[k].hours) :
                    k \in 1..Len(line_items)}
    IN  [t EXCEPT !.invoices = inv, !.items = old \cup new]

----------------------------------------------------------------------------
(* Sample rows *)

SampleProfile(id) == Profile(id, Word, Word, Some(Word), Word, Word, Word, Word)
SampleClient(id, profile_id) == Client(id, Word, Word, Some(Word), Word, profile_id)
SampleProject(id, client_id) == Project(id, client_id, Word, Today, None)
SampleInvoice(id, project_id) ==
    Invoice(id, project_id, id, Today, Today, Num(1), "Sent")
SampleItem(id, invoice_id) == InvoiceLineItem(id, invoice_id, Word, Num(2))

\* P profiles, each with N clients, each with M projects, each with K
\* invoices, each with L line items
TreeDb(P, N, M, K, L) ==
    [profiles |-> {SampleProfile(p) : p \in 1..P},
     clients  |-> {SampleClient((p - 1) * N + n, p) : p \in 1..P, n \in 1..N},
     projects |-> {SampleProject((c - 1) * M + m, c) :
                        c \in 1..(P * N), m \in 1..M},
     invoices |-> {SampleInvoice((j - 1) * K + k, j) :
                        j \in 1..(P * N * M), k \in 1..K},
     items    |-> {SampleItem((i - 1) * L + l, i) :
                        i \in 1..(P * N * M * K), l \in 1..L}]

InitTrees ==
    {TreeDb(P, N, M, K, L) :
        P \in 1..MaxProfiles, N \in 0..MaxFan, M \in 0..MaxFan,
        K \in 0..MaxFan, L \in 0..MaxFan}

\* the next id each table's sequence hands out
SerialFor(t) ==
    [profiles |-> Cardinality(t.profiles) + 1,
     clients  |-> Cardinality(t.clients) + 1,
     projects |-> Cardinality(t.projects) + 1,
     invoices |-> Cardinality(t.invoices) + 1,
     items    |-> Cardinality(t.items) + 1]

----------------------------------------------------------------------------
(* The Navigator's state before main() has loaded anything *)

Screen(tag, id, inv) == [tag |-> tag, id |-> id, inv |-> inv]

\* AppState::new over the tables t, no file generated, no key handled yet
AppNew(t) ==
    [db |-> t, serial |-> SerialFor(t), screen |-> Screen("Profiles", 0, None),
     profiles_state |-> None, profile_wizard_state |-> None,
     clients_state |-> None, client_wizard_state |-> None,
     projects_state |-> None, project_wizard_state |-> None,
     invoices_state |-> None, invoice_wizard_state |-> None,
     files |-> {}, emitted |-> None, ops |-> <<>>, exit |-> "init",
     sessions |-> 0, fail |-> 0]

\* the variables hold the application a
Is(a) ==
    /\ db = a.db
    /\ serial = a.serial
    /\ screen = a.screen
    /\ profiles_state = a.profiles_state
    /\ profile_wizard_state = a.profile_wizard_state
    /\ clients_state = a.clients_state
    /\ client_wizard_state = a.client_wizard_state
    /\ projects_state = a.projects_state
    /\ project_wizard_state = a.project_wizard_state
    /\ invoices_state = a.invoices_state
    /\ invoice_wizard_state = a.invoice_wizard_state
    /\ files = a.files
    /\ emitted = a.emitted
    /\ ops = a.ops
    /\ exit = a.exit
    /\ sessions = a.sessions

----------------------------------------------------------------------------
(* Storage specification: the delete operations called one at a time, the  *)
(* cascade transactions one statement per step, any statement may fail.    *)

\* op(id), how it ended ("open" while running), the committed rows when it
\* was called, and the statement that failed
NoCall ==
    [op |-> "none", id |-> 0, state |-> "none", before |-> EmptyDb, at |-> ""]
Call(op, id, state, before) ==
    [op |-> op, id |-> id, state |-> state, before |-> before, at |-> ""]

\* the rows the pool's other connections see while x is open: statements
\* run on &mut *tx stay invisible until commit
\* (mutant: the statements run on the pool and are visible at once)
PoolViewShared(x, committed) == x.t

PoolView(x, committed) == committed

StoreInit ==
    /\ \E t \in InitTrees : Is(AppNew(t))
    /\ tx = None
    /\ res = NoCall

\* each behaviour makes one storage call on one of the initial trees
Idle == tx = None /\ res.op = "none"

BeginDeleteProfile(id) ==
    /\ Idle
    /\ tx' = Some(TxBegin("profile", id, db))
    /\ res' = Call("delete_profile", id, "open", db)
    /\ UNCHANGED <<db, serial, navVars>>

BeginDeleteClient(id) ==
    /\ Idle
    /\ tx' = Some(TxBegin("client", id, db))
    /\ res' = Call("delete_client", id, "open", db)
    /\ UNCHANGED <<db, serial, navVars>>

\* a SELECT or DELETE of the open transaction succeeds
TxAdvance ==
    /\ IsSome(tx)
    /\ Unwrap(tx).pc # "commit"
    /\ tx' = Some(TxStep(Unwrap(tx)))
    /\ db' = PoolView(Unwrap(tx'), db)
    /\ UNCHANGED <<serial, res, navVars>>

\* tx.commit().await? succeeds
TxCommit ==
    /\ IsSome(tx)
    /\ Unwrap(tx).pc = "commit"
    /\ db' = TxStep(Unwrap(tx)).t
    /\ tx' = None
    /\ res' = [res EXCEPT !.state = "ok"]
    /\ UNCHANGED <<serial, navVars>>

\* the next statement (or the commit) fails: `?` returns, tx is dropped
TxFail ==
    /\ IsSome(tx)
    /\ tx' = None
    /\ res' = [res EXCEPT !.state = "err", !.at = Unwrap(tx).pc]
    /\ UNCHANGED <<db, serial, navVars>>

\* pool.begin() fails
BeginFail(op, id) ==
    /\ Idle
    /\ res' = Call(op, id, "err", db)
    /\ UNCHANGED <<db, tx, serial, navVars>>

DeleteProjectCall(id) ==
    /\ Idle
    /\ \/ db' = delete_project(db, id) /\ res' = Call("delete_project", id, "ok", db)
       \/ db' = db /\ res' = Call("delete_project", id, "err", db)
    /\ UNCHANGED <<tx, serial, navVars>>

DeleteInvoiceCall(id) ==
    /\ Idle
    /\ \/ db' = delete_invoice(db, id) /\ res' = Call("delete_invoice", id, "ok", db)
       \/ db' = db /\ res' = Call("delete_invoice", id, "err", db)
    /\ UNCHANGED <<tx, serial, navVars>>

Ids(rows) == {r.id : r \in rows}

StoreNext ==
    \/ \E id \in Ids(db.profiles) : BeginDeleteProfile(id)
    \/ \E id \in Ids(db.clients) : BeginDeleteClient(id)
    \/ TxAdvance
    \/ TxCommit
    \/ TxFail
    \/ \E id \in Ids(db.profiles) : BeginFail("delete_profile", id)
    \/ \E id \in Ids(db.clients) : BeginFail("delete_client", id)
    \/ \E id \in Ids(db.projects) : DeleteProjectCall(id)
    \/ \E id \in Ids(db.invoices) : DeleteInvoiceCall(id)

SpecStore == StoreInit /\ [][StoreNext]_vars

----------------------------------------------------------------------------
(* Keys (crossterm KeyEvent: code, character, SHIFT modifier) *)

Key(code) == [code |-> code, c |-> "", shift |-> FALSE]
Char(c) == [code |-> "Char", c |-> c, shift |-> FALSE]
IsChar(key, c) == key.code = "Char" /\ key.c = c

----------------------------------------------------------------------------
(* The application state as one value, and the storage calls of a handler *)

\* AppState plus the storage and the files; fail is the number of the
\* storage call of this handler that fails (0: none does)
App(fail) ==
    [db |-> db, serial |-> serial, screen |-> screen,
     profiles_state |-> profiles_state,
     profile_wizard_state |-> profile_wizard_state,
     clients_state |-> clients_state,
     client_wizard_state |-> client_wizard_state,
     projects_state |-> projects_state,
     project_wizard_state |-> project_wizard_state,
     invoices_state |-> invoices_state,
     invoice_wizard_state |-> invoice_wizard_state,
     files |-> files, emitted |-> None, ops |-> <<>>, exit |-> exit,
     sessions |-> sessions, fail |-> fail]

Becomes(a) ==
    /\ db' = a.db
    /\ serial' = a.serial
    /\ screen' = a.screen
    /\ profiles_state' = a.profiles_state
    /\ profile_wizard_state' = a.profile_wizard_state
    /\ clients_state' = a.clients_state
    /\ client_wizard_state' = a.client_wizard_state
    /\ projects_state' = a.projects_state
    /\ project_wizard_state' = a.project_wizard_state
    /\ invoices_state' = a.invoices_state
    /\ invoice_wizard_state' = a.invoice_wizard_state
    /\ files' = a.files
    /\ emitted' = a.emitted
    /\ ops' = a.ops
    /\ exit' = a.exit
    /\ sessions' = a.sessions
    /\ UNCHANGED <<tx, res>>

\* the storage call about to be made is the one that fails
Failing(a) == a.fail = Len(a.ops) + 1

\* `.await?` on a failed call: the handler returns Err, which run_app
\* returns to main
Failed(a, call) == [a EXCEPT !.ops = Append(@, call), !.exit = "error"]

\* the call returned Ok
Called(a, call) == [a EXCEPT !.ops = Append(@, call)]

----------------------------------------------------------------------------
(* List screens: src/src/ui/profiles.rs, clients.rs, projects.rs *)

\* ListState::select(Some(0)) unless the list is empty
FirstSelected(rows) == IF Len(rows) = 0 THEN None ELSE Some(0)

\* ProfilesState::next / ClientsState::next / ProjectsState::next
ListNext(len, selected) ==
    IF len = 0 THEN selected
    ELSE IF IsSome(selected)
         THEN (IF Unwrap(selected) >= len - 1 THEN Some(0)
               ELSE Some(Unwrap(selected) + 1))
         ELSE Some(0)

\* ProfilesState::previous / ClientsState::previous / ProjectsState::previous
ListPrevious(len, selected) ==
    IF len = 0 THEN selected
    ELSE IF IsSome(selected)
         THEN (IF Unwrap(selected) = 0 THEN Some(len - 1)
               ELSE Some(Unwrap(selected) - 1))
         ELSE Some(0)

\* selected_profile_id / selected_client_id / selected_project_id
SelectedId(rows, selected) ==
    IF IsSome(selected) /\ Unwrap(selected) < Len(rows)
    THEN Some(rows[Unwrap(selected) + 1].id)
    ELSE None

ProfilesStateNew(profiles) ==
    [profiles |-> profiles, selected |-> FirstSelected(profiles),
     show_delete_confirmation |-> FALSE]

\* a ClientsState that loses the profile id it was built for
ClientsStateNewUnparented(profile_id, clients) ==
    [profile_id |-> 0, clients |-> clients,
     selected |-> FirstSelected(clients), show_delete_confirmation |-> FALSE]

ClientsStateNew(profile_id, clients) ==
    [profile_id |-> profile_id, clients |-> clients,
     selected |-> FirstSelected(clients), show_delete_confirmation |-> FALSE]

\* a ProjectsState that loses the client id it was built for
ProjectsStateNewUnparented(client_id, projects) ==
    [client_id |-> 0, projects |-> projects,
     selected |-> FirstSelected(projects), show_delete_confirmation |-> FALSE]

ProjectsStateNew(client_id, projects) ==
    [client_id |-> client_id, projects |-> projects,
     selected |-> FirstSelected(projects), show_delete_confirmation |-> FALSE]

Action(kind, id) == Some([kind |-> kind, id |-> id])
Out(state, action) == [state |-> state, action |-> action]

\* (mutant: Down moves the selection under the open dialog as well)
ListInputMoving(s, rows, key) ==
    LET confirm == s.show_delete_confirmation
        id == SelectedId(rows, s.selected)
    IN  CASE IsChar(key, "q") \/ key.code = "Esc" ->
                IF confirm
                THEN Out([s EXCEPT !.show_delete_confirmation = FALSE], None)
                ELSE Out(s, Action("Leave", 0))
          [] IsChar(key, "n") ->
                IF ~confirm THEN Out(s, Action("New", 0)) ELSE Out(s, None)
          [] IsChar(key, "e") ->
                IF ~confirm /\ IsSome(id)
                THEN Out(s, Action("Edit", Unwrap(id))) ELSE Out(s, None)
          [] IsChar(key, "d") ->
                IF ~confirm /\ IsSome(id)
                THEN Out([s EXCEPT !.show_delete_confirmation = TRUE], None)
                ELSE Out(s, None)
          [] IsChar(key, "y") ->
                IF confirm /\ IsSome(id)
                THEN Out([s EXCEPT !.show_delete_confirmation = FALSE],
                         Action("Delete", Unwrap(id)))
                ELSE Out(s, None)
          [] key.code = "Down" ->
                Out([s EXCEPT !.selected = ListNext(Len(rows), @)], None)
          [] key.code = "Up" ->
                IF ~confirm
                THEN Out([s EXCEPT !.selected = ListPrevious(Len(rows), @)], None)
                ELSE Out(s, None)
          [] key.code = "Enter" ->
                IF ~confirm /\ IsSome(id)
                THEN Out(s, Action("Select", Unwrap(id))) ELSE Out(s, None)
          [] OTHER -> Out(s, None)

\* handle_input of profiles.rs, clients.rs and projects.rs: the new state
\* and the action kind (Leave is Exit on Profiles, Back elsewhere)
ListInput(s, rows, key) ==
    LET confirm == s.show_delete_confirmation
        id == SelectedId(rows, s.selected)
    IN  CASE IsChar(key, "q") \/ key.code = "Esc" ->
                IF confirm
                THEN Out([s EXCEPT !.show_delete_confirmation = FALSE], None)
                ELSE Out(s, Action("Leave", 0))
          [] IsChar(key, "n") ->
                IF ~confirm THEN Out(s, Action("New", 0)) ELSE Out(s, None)
          [] IsChar(key, "e") ->
                IF ~confirm /\ IsSome(id)
                THEN Out(s, Action("Edit", Unwrap(id))) ELSE Out(s, None)
          [] IsChar(key, "d") ->
                IF ~confirm /\ IsSome(id)
                THEN Out([s EXCEPT !.show_delete_confirmation = TRUE], None)
                ELSE Out(s, None)
          [] IsChar(key, "y") ->
                IF confirm /\ IsSome(id)
                THEN Out([s EXCEPT !.show_delete_confirmation = FALSE],
                         Action("Delete", Unwrap(id)))
                ELSE Out(s, None)
          [] key.code = "Down" ->
                IF ~confirm
                THEN Out([s EXCEPT !.selected = ListNext(Len(rows), @)], None)
                ELSE Out(s, None)
          [] key.code = "Up" ->
                IF ~confirm
                THEN Out([s EXCEPT !.selected = ListPrevious(Len(rows), @)], None)
                ELSE Out(s, None)
          [] key.code = "Enter" ->
                IF ~confirm /\ IsSome(id)
                THEN Out(s, Action("Select", Unwrap(id))) ELSE Out(s, None)
          [] OTHER -> Out(s, None)

handle_profiles_input(s, key) == ListInput(s, s.profiles, key)
handle_clients_input(s, key) == ListInput(s, s.clients, key)
handle_projects_input(s, key) == ListInput(s, s.projects, key)

----------------------------------------------------------------------------
(* Profile wizard: src/src/ui/profile_wizard.rs *)

ProfileFields == <<"Name", "Email", "PhoneNumber", "Address", "BankName",
                   "BankAccountNumber", "BankRoutingNumber">>

\* next_field / previous_field: the declared order, wrapping around
NextIn(fields, f) == fields[(IndexOf(fields, f) % Len(fields)) + 1]
PreviousIn(fields, f) ==
    fields[((IndexOf(fields, f) + Len(fields) - 2) % Len(fields)) + 1]

\* ProfileWizardState::new
ProfileWizardStateNew ==
    [profile |-> Profile(0, Str0, Str0, Some(Str0), Str0, Str0, Str0, Str0),
     current_field |-> "Name", editing |-> FALSE]

\* ProfileWizardState::from_existing
ProfileWizardStateFromExisting(profile) ==
    [profile |-> profile, current_field |-> "Name", editing |-> FALSE]

\* KeyCode::Char(c) => push(c), KeyCode::Backspace => pop(), _ => {}
EditText(text, key) ==
    CASE key.code = "Char" -> Append(text, key.c)
      [] key.code = "Backspace" -> Pop(text)
      [] OTHER -> text

\* an optional field is materialised to Some("") before it is edited
EditOptionalText(text, key) ==
    Some(EditText(IF IsSome(text) THEN Unwrap(text) ELSE Str0, key))

\* ProfileWizardState::edit_current_field
ProfileEditCurrentField(s, key) ==
    IF ~s.editing THEN s
    ELSE CASE s.current_field = "Name" ->
                [s EXCEPT !.profile.name = EditText(@, key)]
           [] s.current_field = "Email" ->
                [s EXCEPT !.profile.email = EditText(@, key)]
           [] s.current_field = "PhoneNumber" ->
                [s EXCEPT !.profile.phonenumber = EditText(@, key)]
           [] s.current_field = "Address" ->
                [s EXCEPT !.profile.address = EditOptionalText(@, key)]
           [] s.current_field = "BankName" ->
                [s EXCEPT !.profile.bank_name = EditText(@, key)]
           [] s.current_field = "BankAccountNumber" ->
                [s EXCEPT !.profile.bank_account_number = EditText(@, key)]
           [] s.current_field = "BankRoutingNumber" ->
                [s EXCEPT !.profile.bank_routing_number = EditText(@, key)]

\* (mutant: the bank fields are not required)
ProfileIsValidNoBank(s) ==
    /\ s.profile.name # Str0
    /\ s.profile.email # Str0
    /\ s.profile.phonenumber # Str0

\* ProfileWizardState::is_valid
ProfileIsValid(s) ==
    /\ s.profile.name # Str0
    /\ s.profile.email # Str0
    /\ s.profile.phonenumber # Str0
    /\ s.profile.bank_name # Str0
    /\ s.profile.bank_account_number # Str0
    /\ s.profile.bank_routing_number # Str0

SaveAction(entity) == Some([kind |-> "Save", entity |-> entity])
CancelAction == Some([kind |-> "Cancel"])

\* (mutant: Esc cancels the wizard whether or not a field is being edited)
handle_profile_wizard_input_esc(s, key) ==
    CASE key.code = "Esc" -> Out(s, CancelAction)
      [] key.code = "Enter" -> Out([s EXCEPT !.editing = ~@], None)
      [] key.code = "Up" /\ ~s.editing ->
            Out([s EXCEPT !.current_field = PreviousIn(ProfileFields, @)], None)
      [] key.code = "Down" /\ ~s.editing ->
            Out([s EXCEPT !.current_field = NextIn(ProfileFields, @)], None)
      [] IsChar(key, "s") /\ ~s.editing ->
            IF ProfileIsValid(s) THEN Out(s, SaveAction(s.profile))
            ELSE Out(s, None)
      [] OTHER ->
            IF s.editing THEN Out(ProfileEditCurrentField(s, key), None)
            ELSE Out(s, None)

\* profile_wizard::handle_input
handle_profile_wizard_input(s, key) ==
    CASE key.code = "Esc" ->
            IF s.editing THEN Out([s EXCEPT !.editing = FALSE], None)
            ELSE Out(s, CancelAction)
      [] key.code = "Enter" -> Out([s EXCEPT !.editing = ~@], None)
      [] key.code = "Up" /\ ~s.editing ->
            Out([s EXCEPT !.current_field = PreviousIn(ProfileFields, @)], None)
      [] key.code = "Down" /\ ~s.editing ->
            Out([s EXCEPT !.current_field = NextIn(ProfileFields, @)], None)
      [] IsChar(key, "s") /\ ~s.editing ->
            IF ProfileIsValid(s) THEN Out(s, SaveAction(s.profile))
            ELSE Out(s, None)
      [] OTHER ->
            IF s.editing THEN Out(ProfileEditCurrentField(s, key), None)
            ELSE Out(s, None)

----------------------------------------------------------------------------
(* Client wizard: src/src/ui/client_wizard.rs *)

ClientFields == <<"Name", "Email", "Phone", "Address">>

\* ClientWizardState::new
ClientWizardStateNew(profile_id) ==
    [profile_id |-> profile_id,
     client |-> Client(0, Str0, Str0, Some(Str0), Str0, profile_id),
     current_field |-> "Name", editing |-> FALSE]

\* (mutant: the focus and the edit mode are not those of a new session)
ClientWizardStateFromExistingEditing(client) ==
    [profile_id |-> client.profile_id, client |-> client,
     current_field |-> "Email", editing |-> TRUE]

\* ClientWizardState::from_existing
ClientWizardStateFromExisting(client) ==
    [profile_id |-> client.profile_id, client |-> client,
     current_field |-> "Name", editing |-> FALSE]

\* ClientWizardState::edit_current_field
ClientEditCurrentField(s, key) ==
    IF ~s.editing THEN s
    ELSE CASE s.current_field = "Name" ->
                [s EXCEPT !.client.name = EditText(@, key)]
           [] s.current_field = "Email" ->
                [s EXCEPT !.client.email = EditText(@, key)]
           [] s.current_field = "Phone" ->
                [s EXCEPT !.client.phone = EditText(@, key)]
           [] s.current_field = "Address" ->
                [s EXCEPT !.client.address = EditOptionalText(@, key)]

\* ClientWizardState::is_valid
ClientIsValid(s) ==
    /\ s.client.name # Str0
    /\ s.client.email # Str0
    /\ s.client.phone # Str0

\* client_wizard::handle_input
handle_client_wizard_input(s, key) ==
    CASE key.code = "Esc" ->
            IF s.editing THEN Out([s EXCEPT !.editing = FALSE], None)
            ELSE Out(s, CancelAction)
      [] key.code = "Enter" -> Out([s EXCEPT !.editing = ~@], None)
      [] key.code = "Up" /\ ~s.editing ->
            Out([s EXCEPT !.current_field = PreviousIn(ClientFields, @)], None)
      [] key.code = "Down" /\ ~s.editing ->
            Out([s EXCEPT !.current_field = NextIn(ClientFields, @)], None)
      [] IsChar(key, "s") /\ ~s.editing ->
            IF ClientIsValid(s) THEN Out(s, SaveAction(s.client))
            ELSE Out(s, None)
      [] OTHER ->
            IF s.editing THEN Out(ClientEditCurrentField(s, key), None)
            ELSE Out(s, None)

----------------------------------------------------------------------------
(* Date input: src/src/ui/components/date_input.rs *)

IsLeap(year) == (year % 4 = 0 /\ year % 100 # 0) \/ year % 400 = 0

\* (mutant: February always has 28 days)
days_in_month_common(year, month) ==
    CASE month \in {1, 3, 5, 7, 8, 10, 12} -> 31
      [] month \in {4, 6, 9, 11} -> 30
      [] OTHER -> 28

\* days_in_month
days_in_month(year, month) ==
    CASE month \in {1, 3, 5, 7, 8, 10, 12} -> 31
      [] month \in {4, 6, 9, 11} -> 30
      [] month = 2 -> IF IsLeap(year) THEN 29 ELSE 28
      [] OTHER -> 30

\* (mutant: any day up to 31 exists in any month)
ValidYmdAnyDay(y, m, d) == m \in 1..12 /\ d \in 1..31

\* chrono's NaiveDate::from_ymd_opt(...).is_some()
ValidYmd(y, m, d) ==
    /\ m \in 1..12
    /\ d >= 1
    /\ d <= (CASE m \in {1, 3, 5, 7, 8, 10, 12} -> 31
               [] m \in {4, 6, 9, 11} -> 30
               [] OTHER -> IF IsLeap(y) THEN 29 ELSE 28)

\* DateInputState::new
DateInputStateNew(date) ==
    [date |-> date, editing |-> FALSE, date_part |-> "Year",
     current_date_input |-> Str0]

\* (mutant: entering edit mode keeps the part and the scratch text)
DateToggleEditingKeepPart(s) == [s EXCEPT !.editing = ~@]

\* DateInputState::toggle_editing
DateToggleEditing(s) ==
    IF ~s.editing
    THEN [s EXCEPT !.editing = TRUE, !.date_part = "Year",
                   !.current_date_input = Str0]
    ELSE [s EXCEPT !.editing = FALSE]

DateParts == <<"Year", "Month", "Day">>

\* DateInputState::next_date_part / previous_date_part
next_date_part(s) ==
    [s EXCEPT !.date_part = NextIn(DateParts, @), !.current_date_input = Str0]
previous_date_part(s) ==
    [s EXCEPT !.date_part = PreviousIn(DateParts, @),
              !.current_date_input = Str0]

\* the last n characters of s
LastChars(s, n) == IF Len(s) <= n THEN s ELSE SubSeq(s, Len(s) - n + 1, Len(s))

\* the digit arm of DateInputState::handle_input
DateInputDigit(s, c) ==
    LET buf == Append(s.current_date_input, c)
        n == ParseDigits(buf)
        y == s.date.y
        m == s.date.m
        d == s.date.d
    IN  CASE s.date_part = "Year" ->
                IF Len(buf) = 4
                THEN [s EXCEPT !.current_date_input = Str0,
                        !.date = IF n >= 1900 /\ n <= 2100 /\ ValidYmd(n, m, d)
                                 THEN Date(n, m, d) ELSE @]
                ELSE IF Len(buf) > 4
                     THEN [s EXCEPT !.current_date_input = LastChars(buf, 4)]
                     ELSE [s EXCEPT !.current_date_input = buf]
          [] s.date_part = "Month" ->
                IF Len(buf) = 2
                THEN [s EXCEPT !.current_date_input = Str0,
                        !.date = IF n >= 1 /\ n <= 12 /\ ValidYmd(y, n, d)
                                 THEN Date(y, n, d) ELSE @]
                ELSE [s EXCEPT !.current_date_input = buf]
          [] s.date_part = "Day" ->
                IF Len(buf) = 2
                THEN [s EXCEPT !.current_date_input = Str0,
                        !.date = IF n >= 1 /\ n <= days_in_month(y, m)
                                    /\ ValidYmd(y, m, n)
                                 THEN Date(y, m, n) ELSE @]
                ELSE [s EXCEPT !.current_date_input = buf]

\* DateInputState::handle_input
DateHandleInput(s, key) ==
    IF ~s.editing THEN s
    ELSE CASE key.code = "Char" /\ IsDigit(key.c) -> DateInputDigit(s, key.c)
           [] key.code = "Backspace" ->
                [s EXCEPT !.current_date_input = Pop(@)]
           [] key.code = "Right" -> next_date_part(s)
           [] key.code = "Left" -> previous_date_part(s)
           [] OTHER -> s

\* the decimal digits of n, zero-padded to w characters
Pad(n, w) == Zeros(w - Len(DigitsOf(n))) \o DigitsOf(n)

\* format!("{}", self.date.format("%Y-%m-%d"))
DateFormat(date) ==
    Pad(date.y, 4) \o <<"-">> \o Pad(date.m, 2) \o <<"-">> \o Pad(date.d, 2)

\* DateInputState::get_display_string
get_display_string(s) ==
    LET year == Pad(s.date.y, 4)
        month == Pad(s.date.m, 2)
        day == Pad(s.date.d, 2)
        current_input ==
            IF s.current_date_input # Str0
            THEN <<"[">> \o s.current_date_input \o <<"]">>
            ELSE CASE s.date_part = "Year" -> <<"[", "Y", "Y", "Y", "Y", "]">>
                   [] s.date_part = "Month" -> <<"[", "M", "M", "]">>
                   [] s.date_part = "Day" -> <<"[", "D", "D", "]">>
    IN  IF s.editing
        THEN CASE s.date_part = "Year" ->
                    year \o current_input \o <<"-">> \o month \o <<"-">> \o day
               [] s.date_part = "Month" ->
                    year \o <<"-">> \o month \o current_input \o <<"-">> \o day
               [] s.date_part = "Day" ->
                    year \o <<"-">> \o month \o <<"-">> \o day \o current_input
        ELSE DateFormat(s.date)

----------------------------------------------------------------------------
(* Project wizard: src/src/ui/project_wizard.rs *)

ProjectFields == <<"Name", "StartDate", "EndDate">>

\* ProjectWizardState::new
ProjectWizardStateNew(client_id) ==
    [client_id |-> client_id,
     project |-> Project(0, client_id, Str0, Today, None),
     current_field |-> "Name", editing |-> FALSE,
     start_date_state |-> DateInputStateNew(Today),
     end_date_state |-> DateInputStateNew(Today)]

\* ProjectWizardState::from_existing
ProjectWizardStateFromExisting(project) ==
    [client_id |-> project.client_id, project |-> project,
     current_field |-> "Name", editing |-> FALSE,
     start_date_state |-> DateInputStateNew(project.start_date),
     end_date_state |-> DateInputStateNew(
        IF IsSome(project.end_date) THEN Unwrap(project.end_date)
        ELSE project.start_date)]

\* (mutant: the edit mode, once entered, is never left)
ProjectToggleEditingKept(s) ==
    IF ~s.editing
    THEN CASE s.current_field = "StartDate" ->
                [s EXCEPT !.editing = TRUE,
                          !.start_date_state = DateToggleEditing(@)]
           [] s.current_field = "EndDate" ->
                [s EXCEPT !.editing = TRUE,
                          !.end_date_state = DateToggleEditing(@)]
           [] OTHER -> [s EXCEPT !.editing = TRUE]
    ELSE [s EXCEPT !.start_date_state.editing = FALSE,
                   !.end_date_state.editing = FALSE]

\* ProjectWizardState::toggle_editing
ProjectToggleEditing(s) ==
    IF ~s.editing
    THEN CASE s.current_field = "StartDate" ->
                [s EXCEPT !.editing = TRUE,
                          !.start_date_state = DateToggleEditing(@)]
           [] s.current_field = "EndDate" ->
                [s EXCEPT !.editing = TRUE,
                          !.end_date_state = DateToggleEditing(@)]
           [] OTHER -> [s EXCEPT !.editing = TRUE]
    ELSE [s EXCEPT !.editing = FALSE, !.start_date_state.editing = FALSE,
                   !.end_date_state.editing = FALSE]

\* ProjectWizardState::edit_current_field
ProjectEditCurrentField(s, key) ==
    IF ~s.editing THEN s
    ELSE CASE s.current_field = "Name" ->
                [s EXCEPT !.project.name = EditText(@, key)]
           [] s.current_field = "StartDate" ->
                LET ds == DateHandleInput(s.start_date_state, key)
                IN  [s EXCEPT !.start_date_state = ds,
                              !.project.start_date = ds.date]
           [] s.current_field = "EndDate" ->
                LET ds == DateHandleInput(s.end_date_state, key)
                IN  [s EXCEPT !.end_date_state = ds,
                              !.project.end_date = Some(ds.date)]

\* ProjectWizardState::is_valid
ProjectIsValid(s) == s.project.name # Str0

\* project_wizard::handle_input
handle_project_wizard_input(s, key) ==
    CASE key.code = "Esc" ->
            IF s.editing THEN Out(ProjectToggleEditing(s), None)
            ELSE Out(s, CancelAction)
      [] key.code = "Enter" -> Out(ProjectToggleEditing(s), None)
      [] key.code = "Up" /\ ~s.editing ->
            Out([s EXCEPT !.current_field = PreviousIn(ProjectFields, @)], None)
      [] key.code = "Down" /\ ~s.editing ->
            Out([s EXCEPT !.current_field = NextIn(ProjectFields, @)], None)
      [] IsChar(key, "s") /\ ~s.editing ->
            IF ProjectIsValid(s) THEN Out(s, SaveAction(s.project))
            ELSE Out(s, None)
      [] OTHER ->
            IF s.editing THEN Out(ProjectEditCurrentField(s, key), None)
            ELSE Out(s, None)

----------------------------------------------------------------------------
(* Invoice wizard: src/src/ui/invoice_wizard.rs *)

\* date + chrono::Duration::days(n)
RECURSIVE AddDays(_, _)
AddDays(date, n) ==
    IF n = 0 THEN date
    ELSE AddDays(
            IF ValidYmd(date.y, date.m, date.d + 1)
            THEN Date(date.y, date.m, date.d + 1)
            ELSE IF date.m < 12 THEN Date(date.y, date.m + 1, 1)
            ELSE Date(date.y + 1, 1, 1), n - 1)

InvoiceFields == <<"SubmitDate", "DueDate", "Rate", "LineItems">>

\* InvoiceWizardState::new
InvoiceWizardStateNew(project_id, invoice_id, existing_invoice, existing_line_items) ==
    LET five_days_later == AddDays(Today, 5)
        fresh ==
            [project_id |-> project_id, invoice_id |-> invoice_id,
             submit_date |-> Today, due_date |-> five_days_later,
             rate |-> Num(0), line_items |-> <<>>,
             current_field |-> "SubmitDate", selected |-> None,
             editing_line_item |-> None, editing |-> FALSE,
             active_input |-> Str0, show_error |-> None,
             submit_date_state |-> DateInputStateNew(Today),
             due_date_state |-> DateInputStateNew(five_days_later)]
        invoice == Unwrap(existing_invoice)
        loaded ==
            [fresh EXCEPT
                !.submit_date = invoice.submit_date,
                !.due_date = invoice.due_date,
                !.rate = invoice.rate,
                !.submit_date_state = DateInputStateNew(invoice.submit_date),
                !.due_date_state = DateInputStateNew(invoice.due_date)]
    IN  IF ~IsSome(existing_invoice) THEN fresh
        ELSE IF ~IsSome(existing_line_items) THEN loaded
        ELSE [loaded EXCEPT
                !.line_items = Unwrap(existing_line_items),
                !.selected = FirstSelected(Unwrap(existing_line_items))]

\* (mutant: leaving edit mode keeps the item editor)
InvoiceToggleEditingKeepItem(s) ==
    IF ~s.editing
    THEN CASE s.current_field = "SubmitDate" ->
                [s EXCEPT !.editing = TRUE,
                          !.submit_date_state = DateToggleEditing(@)]
           [] s.current_field = "DueDate" ->
                [s EXCEPT !.editing = TRUE,
                          !.due_date_state = DateToggleEditing(@)]
           [] s.current_field = "Rate" ->
                [s EXCEPT !.editing = TRUE,
                          !.active_input = F64ToString(s.rate)]
           [] s.current_field = "LineItems" -> [s EXCEPT !.editing = TRUE]
    ELSE [s EXCEPT !.editing = FALSE, !.submit_date_state.editing = FALSE,
                   !.due_date_state.editing = FALSE]

\* InvoiceWizardState::toggle_editing
InvoiceToggleEditing(s) ==
    IF ~s.editing
    THEN CASE s.current_field = "SubmitDate" ->
                [s EXCEPT !.editing = TRUE,
                          !.submit_date_state = DateToggleEditing(@)]
           [] s.current_field = "DueDate" ->
                [s EXCEPT !.editing = TRUE,
                          !.due_date_state = DateToggleEditing(@)]
           [] s.current_field = "Rate" ->
                [s EXCEPT !.editing = TRUE,
                          !.active_input = F64ToString(s.rate)]
           [] s.current_field = "LineItems" -> [s EXCEPT !.editing = TRUE]
    ELSE [s EXCEPT !.editing = FALSE, !.submit_date_state.editing = FALSE,
                   !.due_date_state.editing = FALSE,
                   !.editing_line_item = None]

EditingItem(idx, field, value) == Some([idx |-> idx, field |-> field, value |-> value])

\* (mutant: the new id is the number of items plus one)
add_line_item_counted(s) ==
    LET line_item == InvoiceLineItem(Len(s.line_items) + 1,
                        IF IsSome(s.invoice_id) THEN Unwrap(s.invoice_id) ELSE 0,
                        Str0, Num(0))
    IN  [s EXCEPT !.line_items = Append(@, line_item),
                  !.selected = Some(Len(s.line_items)),
                  !.editing_line_item =
                        EditingItem(Len(s.line_items), "Description", Str0)]

\* InvoiceWizardState::add_line_item
add_line_item(s) ==
    LET new_id == IF s.line_items = <<>> THEN 1
                  ELSE s.line_items[Len(s.line_items)].id + 1
        line_item == InvoiceLineItem(new_id,
                        IF IsSome(s.invoice_id) THEN Unwrap(s.invoice_id) ELSE 0,
                        Str0, Num(0))
    IN  [s EXCEPT !.line_items = Append(@, line_item),
                  !.selected = Some(Len(s.line_items)),
                  !.editing_line_item =
                        EditingItem(Len(s.line_items), "Description", Str0)]

\* InvoiceWizardState::edit_line_item
edit_line_item(s) ==
    IF IsSome(s.selected) /\ Unwrap(s.selected) < Len(s.line_items)
    THEN [s EXCEPT !.editing_line_item =
            EditingItem(Unwrap(s.selected), "Description",
                        s.line_items[Unwrap(s.selected) + 1].description)]
    ELSE s

\* Vec::remove(i), i counted from 0
Remove(seq, i) == SubSeq(seq, 1, i) \o SubSeq(seq, i + 2, Len(seq))

\* (mutant: the selection is left where it was)
delete_line_item_unclamped(s) ==
    IF IsSome(s.selected) /\ Unwrap(s.selected) < Len(s.line_items)
    THEN [s EXCEPT !.line_items = Remove(@, Unwrap(s.selected)),
                   !.editing_line_item = None]
    ELSE s

\* InvoiceWizardState::delete_line_item
delete_line_item(s) ==
    IF IsSome(s.selected) /\ Unwrap(s.selected) < Len(s.line_items)
    THEN LET selected == Unwrap(s.selected)
             rest == Remove(s.line_items, selected)
         IN  [s EXCEPT !.line_items = rest,
                       !.selected = IF rest # <<>>
                                    THEN (IF selected >= Len(rest)
                                          THEN Some(Len(rest) - 1)
                                          ELSE Some(selected))
                                    ELSE None,
                       !.editing_line_item = None]
    ELSE s

\* (mutant: the Hours scratch text starts empty)
next_field_in_line_item_blank(s) ==
    IF ~IsSome(s.editing_line_item) THEN s
    ELSE LET it == Unwrap(s.editing_line_item)
             idx == it.idx
             hours == ParseF64(it.value)
         IN  CASE it.field = "Description" ->
                    IF idx < Len(s.line_items)
                    THEN [s EXCEPT
                            !.line_items[idx + 1].description = it.value,
                            !.editing_line_item =
                                EditingItem(idx, "Hours", Str0)]
                    ELSE s
               [] it.field = "Hours" ->
                    IF idx < Len(s.line_items)
                    THEN (IF IsSome(hours)
                          THEN [s EXCEPT
                                  !.line_items[idx + 1].hours = Unwrap(hours),
                                  !.editing_line_item = None]
                          ELSE [s EXCEPT !.show_error = Some("Invalid hours")])
                    ELSE s
               [] OTHER -> s

\* InvoiceWizardState::next_field_in_line_item
next_field_in_line_item(s) ==
    IF ~IsSome(s.editing_line_item) THEN s
    ELSE LET it == Unwrap(s.editing_line_item)
             idx == it.idx
             hours == ParseF64(it.value)
         IN  CASE it.field = "Description" ->
                    IF idx < Len(s.line_items)
                    THEN [s EXCEPT
                            !.line_items[idx + 1].description = it.value,
                            !.editing_line_item =
                                EditingItem(idx, "Hours",
                                    F64ToString(s.line_items[idx + 1].hours))]
                    ELSE s
               [] it.field = "Hours" ->
                    IF idx < Len(s.line_items)
                    THEN (IF IsSome(hours)
                          THEN [s EXCEPT
                                  !.line_items[idx + 1].hours = Unwrap(hours),
                                  !.editing_line_item = None]
                          ELSE [s EXCEPT !.show_error = Some("Invalid hours")])
                    ELSE s
               [] OTHER -> s

\* InvoiceWizardState::edit_current_field
InvoiceEditCurrentField(s, key) ==
    IF ~s.editing THEN s
    ELSE CASE s.current_field = "SubmitDate" ->
                LET ds == DateHandleInput(s.submit_date_state, key)
                IN  [s EXCEPT !.submit_date_state = ds, !.submit_date = ds.date]
           [] s.current_field = "DueDate" ->
                LET ds == DateHandleInput(s.due_date_state, key)
                IN  [s EXCEPT !.due_date_state = ds, !.due_date = ds.date]
           [] s.current_field = "Rate" ->
                CASE key.code = "Char" /\ (IsDigit(key.c) \/ key.c = ".") ->
                        [s EXCEPT !.active_input = Append(@, key.c)]
                  [] key.code = "Backspace" ->
                        [s EXCEPT !.active_input = Pop(@)]
                  [] OTHER -> s
           [] s.current_field = "LineItems" ->
                IF IsSome(s.editing_line_item)
                THEN [s EXCEPT !.editing_line_item[1].value = EditText(@, key)]
                ELSE s

\* the rate is_valid and to_invoice use: the text in active_input when it
\* is not empty, the committed rate otherwise
RateOr(s, default) ==
    IF s.active_input = Str0 THEN s.rate
    ELSE IF IsSome(ParseF64(s.active_input))
         THEN Unwrap(ParseF64(s.active_input)) ELSE default

\* InvoiceWizardState::to_invoice; stamp is Local::now().timestamp() % 10000
to_invoice(s, stamp) ==
    Invoice(IF IsSome(s.invoice_id) THEN Unwrap(s.invoice_id) ELSE 0,
            s.project_id,
            IF IsSome(s.invoice_id) THEN Unwrap(s.invoice_id) ELSE stamp,
            s.submit_date, s.due_date, RateOr(s, s.rate), "Draft")

\* (mutant: the line-item list is not looked at)
InvoiceIsValidRateOnly(s) == Positive(RateOr(s, Num(0)))

\* (mutant: a line item without description does not count)
InvoiceIsValidDescribed(s) ==
    /\ \E i \in 1..Len(s.line_items) : s.line_items[i].description # Str0
    /\ Positive(RateOr(s, Num(0)))

\* InvoiceWizardState::is_valid
InvoiceIsValid(s) == s.line_items # <<>> /\ Positive(RateOr(s, Num(0)))

SaveInvoiceAction(invoice, line_items) ==
    Some([kind |-> "Save", entity |-> invoice, line_items |-> line_items])

\* Up / Down over the line-item list
ItemsPrevious(s) ==
    IF Len(s.line_items) > 0
    THEN [s EXCEPT !.selected =
            IF IsSome(@) THEN (IF Unwrap(@) = 0 THEN Some(Len(s.line_items) - 1)
                               ELSE Some(Unwrap(@) - 1))
            ELSE Some(0)]
    ELSE s
ItemsNext(s) ==
    IF Len(s.line_items) > 0
    THEN [s EXCEPT !.selected =
            IF IsSome(@) THEN (IF Unwrap(@) >= Len(s.line_items) - 1 THEN Some(0)
                               ELSE Some(Unwrap(@) + 1))
            ELSE Some(0)]
    ELSE s

\* invoice_wizard::handle_input
handle_invoice_wizard_input(s0, key, stamp) ==
    LET s == [s0 EXCEPT !.show_error = None]
        inList == s.current_field = "LineItems" /\ s.editing
                    /\ ~IsSome(s.editing_line_item)
        rate == ParseF64(s.active_input)
    IN  CASE key.code = "Esc" ->
                IF s.editing THEN Out(InvoiceToggleEditing(s), None)
                ELSE Out(s, CancelAction)
          [] key.code = "Enter" ->
                IF s.editing
                THEN IF s.current_field = "Rate"
                     THEN (IF IsSome(rate)
                           THEN Out(InvoiceToggleEditing(
                                        [s EXCEPT !.rate = Unwrap(rate)]), None)
                           ELSE Out([s EXCEPT !.show_error = Some("Invalid rate")],
                                    None))
                     ELSE IF s.current_field = "LineItems"
                     THEN (IF IsSome(s.editing_line_item)
                           THEN Out(next_field_in_line_item(s), None)
                           ELSE Out(InvoiceToggleEditing(s), None))
                     ELSE Out(InvoiceToggleEditing(s), None)
                ELSE Out(InvoiceToggleEditing(s), None)
          [] IsChar(key, "s") /\ ~s.editing ->
                IF InvoiceIsValid(s)
                THEN Out(s, SaveInvoiceAction(to_invoice(s, stamp), s.line_items))
                ELSE Out([s EXCEPT !.show_error = Some("Please complete")], None)
          [] IsChar(key, "a") ->
                IF inList THEN Out(add_line_item(s), None)
                ELSE IF s.editing THEN Out(InvoiceEditCurrentField(s, key), None)
                ELSE Out(s, None)
          [] IsChar(key, "e") ->
                IF inList /\ IsSome(s.selected) THEN Out(edit_line_item(s), None)
                ELSE IF s.editing THEN Out(InvoiceEditCurrentField(s, key), None)
                ELSE Out(s, None)
          [] IsChar(key, "d") ->
                IF inList /\ IsSome(s.selected) THEN Out(delete_line_item(s), None)
                ELSE IF s.editing THEN Out(InvoiceEditCurrentField(s, key), None)
                ELSE Out(s, None)
          [] key.code = "Tab" ->
                IF s.current_field = "LineItems" /\ s.editing
                    /\ IsSome(s.editing_line_item)
                THEN Out(next_field_in_line_item(s), None)
                ELSE Out(s, None)
          [] key.code = "Up" /\ ~s.editing ->
                Out([s EXCEPT !.current_field = PreviousIn(InvoiceFields, @)], None)
          [] key.code = "Down" /\ ~s.editing ->
                Out([s EXCEPT !.current_field = NextIn(InvoiceFields, @)], None)
          [] key.code = "Up" /\ inList -> Out(ItemsPrevious(s), None)
          [] key.code = "Down" /\ inList -> Out(ItemsNext(s), None)
          [] OTHER ->
                IF s.editing THEN Out(InvoiceEditCurrentField(s, key), None)
                ELSE Out(s, None)

----------------------------------------------------------------------------
(* Email overlay: src/src/ui/email_wizard.rs, and the generated files *)

MdPath(number) == [kind |-> "md", number |-> number]
PdfPath(number) == [kind |-> "pdf", number |-> number]

EmailFields == <<"RecipientEmail", "Subject", "Message", "None">>

\* EmailWizardState::new
EmailWizardStateNew(invoice_id) ==
    [invoice_id |-> invoice_id, invoice |-> None, line_items |-> None,
     recipient_email |-> Str0, subject |-> Str0, message |-> Str0,
     current_field |-> "RecipientEmail", show_error |-> None,
     show_success |-> None, generated_md_path |-> None,
     generated_pdf_path |-> None, dismissing |-> FALSE]

\* EmailWizardState::load_invoice; the format! texts are kept as one token
load_invoice(e, invoice, line_items, project_name, client_email) ==
    [e EXCEPT !.subject = <<"Invoice #", ToString(invoice.number), " for ">>
                            \o project_name,
              !.recipient_email = client_email,
              !.invoice = Some(invoice),
              !.line_items = Some(line_items),
              !.message = <<"Dear Client, ...">>]

\* EmailWizardState::next_field / previous_field: no wrap-around
EmailNextField(f) == IF f = "None" THEN f ELSE NextIn(EmailFields, f)
EmailPreviousField(f) ==
    IF f = "RecipientEmail" THEN f ELSE PreviousIn(EmailFields, f)

\* EmailWizardState::handle_input(char); '\u{7f}' stands for Backspace
EmailEdit(e, key) ==
    CASE e.current_field = "RecipientEmail" ->
            [e EXCEPT !.recipient_email = EditText(@, key)]
      [] e.current_field = "Subject" -> [e EXCEPT !.subject = EditText(@, key)]
      [] e.current_field = "Message" -> [e EXCEPT !.message = EditText(@, key)]
      [] OTHER -> e

\* (mutant: the subject is not looked at)
validate_no_subject(e) ==
    IF e.recipient_email = Str0 THEN Some("Recipient email cannot be empty")
    ELSE IF \A i \in 1..Len(e.recipient_email) : e.recipient_email[i] # "@"
         THEN Some("Invalid email address")
    ELSE None

\* EmailWizardState::validate: None is Ok(())
validate(e) ==
    IF e.recipient_email = Str0 THEN Some("Recipient email cannot be empty")
    ELSE IF \A i \in 1..Len(e.recipient_email) : e.recipient_email[i] # "@"
         THEN Some("Invalid email address")
    ELSE IF e.subject = Str0 THEN Some("Subject cannot be empty")
    ELSE None

\* the files left by EmailWizardState::cleanup_files
cleanup_files(e, fs) == fs \ {p \in fs :
    \/ e.generated_md_path = Some(p)
    \/ e.generated_pdf_path = Some(p)}

\* an Option<EmailWizardState> is dropped: Drop::drop runs cleanup_files
Dropped(overlay, fs) ==
    IF IsSome(overlay) THEN cleanup_files(Unwrap(overlay), fs) ELSE fs

\* an Option<InvoicesState> is dropped, and its overlay with it
DroppedState(invoices, fs) ==
    IF IsSome(invoices) THEN Dropped(Unwrap(invoices).email_wizard_state, fs)
    ELSE fs

\* email_wizard::handle_input
handle_email_input(e0, key) ==
    LET e == [e0 EXCEPT !.show_error = None, !.show_success = None]
    IN  CASE key.code = "Backspace" -> Out(EmailEdit(e, key), None)
          [] key.code = "Esc" -> Out(e, CancelAction)
          [] key.code = "Char" -> Out(EmailEdit(e, key), None)
          [] key.code = "Enter" ->
                IF e.current_field = "None"
                THEN (IF validate(e) = None
                      THEN Out(e, Some([kind |-> "Send"]))
                      ELSE Out([e EXCEPT !.show_error = validate(e)], None))
                ELSE Out([e EXCEPT !.current_field = EmailNextField(@)], None)
          [] key.code = "Tab" ->
                IF key.shift
                THEN Out([e EXCEPT !.current_field = EmailPreviousField(@)], None)
                ELSE Out([e EXCEPT !.current_field = EmailNextField(@)], None)
          [] OTHER -> Out(e, None)

\* lettre's parse of the recipient: local@domain, both non-empty, one "@"
AddressOk(s) ==
    \E i \in 2..(Len(s) - 1) :
        /\ s[i] = "@"
        /\ \A k \in 1..Len(s) : k # i => s[k] # "@"

Overlay(a) == Unwrap(Unwrap(a.invoices_state).email_wizard_state)

SetOverlay(a, e) == [a EXCEPT !.invoices_state[1].email_wizard_state = Some(e)]

\* InvoicesState::close_email_wizard: the overlay is dropped
close_email_wizard(a) ==
    [a EXCEPT !.invoices_state[1].email_wizard_state = None,
              !.files = Dropped(Unwrap(a.invoices_state).email_wizard_state, @)]

\* InvoicesState::force_close_email_wizard
force_close_email_wizard(a) ==
    close_email_wizard(
        [a EXCEPT !.files =
            Dropped(Unwrap(a.invoices_state).email_wizard_state, @)])

\* EmailWizardState::dismiss
dismiss(a) ==
    [SetOverlay(a, [Overlay(a) EXCEPT !.dismissing = TRUE]) EXCEPT
        !.files = cleanup_files(Overlay(a), @)]

\* send_invoice_email; sent is what the mail relay answers
send_invoice_email(a, sent) ==
    LET e == Overlay(a)
        invoice == Unwrap(e.invoice)
        pdf_path == IF IsSome(e.generated_pdf_path)
                    THEN Unwrap(e.generated_pdf_path)
                    ELSE PdfPath(invoice.number)
    IN  IF ~(IsSome(e.invoice) /\ IsSome(e.line_items))
        THEN SetOverlay(a, [e EXCEPT !.show_error = Some("Invoice data is missing")])
        ELSE IF pdf_path \notin a.files
        THEN SetOverlay(a, [e EXCEPT !.show_error = Some("PDF file not found")])
        ELSE IF ~AddressOk(e.recipient_email)
        THEN [a EXCEPT !.exit = "error"]
        ELSE IF sent
        THEN SetOverlay(a, [e EXCEPT !.show_success = Some("sent successfully")])
        ELSE SetOverlay(a, [e EXCEPT !.show_error = Some("Failed to send email")])

\* InvoiceGenerator::generate_invoice as generate_invoice_files sees it; gen
\* is how far the generator gets: "ok", "md_only" (the markdown file is
\* written, the rendered copy fails) or "no_md"
Generated(a, gen) ==
    LET e == Overlay(a)
        number == Unwrap(e.invoice).number
    IN  CASE gen = "ok" ->
                [SetOverlay(a, [e EXCEPT
                        !.generated_md_path = Some(MdPath(number)),
                        !.generated_pdf_path = Some(PdfPath(number))]) EXCEPT
                    !.files = @ \cup {MdPath(number), PdfPath(number)}]
          [] gen = "md_only" ->
                [SetOverlay(a, [e EXCEPT
                        !.show_error = Some("Failed to generate invoice files")])
                    EXCEPT !.files = @ \cup {MdPath(number)}]
          [] OTHER ->
                SetOverlay(a, [e EXCEPT
                        !.show_error = Some("Failed to generate invoice files")])

\* one fetch_one of the 'm' arm: the row, or the `?` returns
Fetch(a, call, row) ==
    IF a.exit = "error" THEN a
    ELSE IF Failing(a) \/ ~IsSome(row) THEN Failed(a, call)
    ELSE Called(a, call)

\* the KeyCode::Char('m') arm of invoices::handle_input with
\* generate_invoice_files
StartEmail(a0, id, gen) ==
    LET a == SetOverlay(
                [a0 EXCEPT !.files =
                    Dropped(Unwrap(a0.invoices_state).email_wizard_state, @)],
                EmailWizardStateNew(id))
        invoice == get_invoice(a.db, id)
        a1 == Fetch(a, "get_invoice", invoice)
        a2 == IF a1.exit = "error" THEN a1
              ELSE IF Failing(a1) THEN Failed(a1, "get_line_items_by_invoice")
              ELSE Called(a1, "get_line_items_by_invoice")
        project == IF IsSome(invoice)
                   THEN get_project(a.db, Unwrap(invoice).project_id) ELSE None
        a3 == Fetch(a2, "get_project", project)
        client == IF IsSome(project)
                  THEN get_client(a.db, Unwrap(project).client_id) ELSE None
        a4 == Fetch(a3, "get_client", client)
        a5 == Fetch(a4, "get_project", project)
        a6 == Fetch(a5, "get_client", client)
        profile == IF IsSome(client)
                   THEN get_profile(a.db, Unwrap(client).profile_id) ELSE None
        a7 == Fetch(a6, "get_profile", profile)
    IN  IF a7.exit = "error" THEN a7
        ELSE Generated(
                SetOverlay(a7, load_invoice(Overlay(a7), Unwrap(invoice),
                    get_line_items_by_invoice(a.db, id),
                    Unwrap(project).name, Unwrap(client).email)), gen)

\* InvoicesState::next / previous
InvoicesNext(s) == [s EXCEPT !.selected = ListNext(Len(s.invoices), @)]
InvoicesPrevious(s) == [s EXCEPT !.selected = ListPrevious(Len(s.invoices), @)]

Emit(a, action) == [a EXCEPT !.emitted = action]

\* invoices::handle_input: the overlay branch, then the list's keys
handle_invoices_input(a, key, gen, sent) ==
    LET s == Unwrap(a.invoices_state)
        id == SelectedId(s.invoices, s.selected)
        out == handle_email_input(Overlay(a), key)
        b == SetOverlay(a, out.state)
    IN  IF IsSome(s.email_wizard_state)
        THEN IF Overlay(a).dismissing THEN close_email_wizard(a)
             ELSE CASE out.action = CancelAction -> close_email_wizard(dismiss(b))
                    [] out.action = Some([kind |-> "Send"]) ->
                        LET c == send_invoice_email(b, sent)
                        IN  IF c.exit # "error" /\ IsSome(Overlay(c).show_success)
                            THEN close_email_wizard(dismiss(c))
                            ELSE c
                    [] OTHER -> b
        ELSE CASE IsChar(key, "q") \/ key.code = "Esc" -> Emit(a, Action("Leave", 0))
               [] IsChar(key, "n") -> Emit(a, Action("New", s.project_id))
               [] IsChar(key, "e") ->
                    IF IsSome(id) THEN Emit(a, Action("Edit", Unwrap(id))) ELSE a
               [] IsChar(key, "m") ->
                    IF IsSome(id) THEN StartEmail(a, Unwrap(id), gen) ELSE a
               [] key.code = "Down" ->
                    [a EXCEPT !.invoices_state = Some(InvoicesNext(s))]
               [] key.code = "Up" ->
                    [a EXCEPT !.invoices_state = Some(InvoicesPrevious(s))]
               [] OTHER -> a

----------------------------------------------------------------------------
(* Invoices list state: src/src/ui/invoices.rs *)

\* InvoicesState::new
InvoicesStateNew(project_id, project_name, invoices) ==
    [project_id |-> project_id, project_name |-> project_name,
     invoices |-> invoices, selected |-> FirstSelected(invoices),
     email_wizard_state |-> None]

----------------------------------------------------------------------------
(* Navigator: the screen handlers of src/src/main.rs.  Each takes the      *)
(* application a and the key that event::read() returns, and gives the     *)
(* application when the handler returns.                                   *)

\* (mutant: the list is loaded but the Profiles screen is not switched to)
load_profiles_hidden(a) ==
    IF Failing(a) THEN Failed(a, "load_profiles")
    ELSE [Called(a, "load_profiles") EXCEPT
            !.profiles_state = Some(ProfilesStateNew(load_profiles(a.db)))]

\* load_profiles_screen
load_profiles_screen(a) ==
    IF Failing(a) THEN Failed(a, "load_profiles")
    ELSE [Called(a, "load_profiles") EXCEPT
            !.profiles_state = Some(ProfilesStateNew(load_profiles(a.db))),
            !.screen = Screen("Profiles", 0, None)]

\* (mutant: a failed load is swallowed and the old list is kept)
ReloadClientsSwallowed(a, profile_id) ==
    [Called(a, "load_clients_by_profile") EXCEPT
        !.clients_state =
            IF Failing(a) THEN @
            ELSE Some(ClientsStateNew(profile_id,
                        load_clients_by_profile(a.db, profile_id)))]

\* let clients = load_clients_by_profile(..).await?;
\* app_state.clients_state = Some(ClientsState::new(profile_id, clients));
ReloadClients(a, profile_id) ==
    IF Failing(a) THEN Failed(a, "load_clients_by_profile")
    ELSE [Called(a, "load_clients_by_profile") EXCEPT
            !.clients_state = Some(ClientsStateNew(profile_id,
                                load_clients_by_profile(a.db, profile_id)))]

\* let projects = load_projects_by_client(..).await?;
\* app_state.projects_state = Some(ProjectsState::new(client_id, projects));
ReloadProjects(a, client_id) ==
    IF Failing(a) THEN Failed(a, "load_projects_by_client")
    ELSE [Called(a, "load_projects_by_client") EXCEPT
            !.projects_state = Some(ProjectsStateNew(client_id,
                                load_projects_by_client(a.db, client_id)))]

\* let invoices = load_invoices_by_project(..).await?;
\* let project = app_state.db.get_project(project_id).await?;
\* app_state.invoices_state = Some(InvoicesState::new(..));  (the state it
\* replaces is dropped)
ReloadInvoices(a, project_id) ==
    IF Failing(a) THEN Failed(a, "load_invoices_by_project")
    ELSE LET b == Called(a, "load_invoices_by_project")
             project == get_project(a.db, project_id)
         IN  IF Failing(b) \/ ~IsSome(project) THEN Failed(b, "get_project")
             ELSE [Called(b, "get_project") EXCEPT
                    !.invoices_state = Some(InvoicesStateNew(project_id,
                        Unwrap(project).name,
                        load_invoices_by_project(a.db, project_id))),
                    !.files = DroppedState(a.invoices_state, @)]

\* app_state.screen = ..., reached only when no `?` has returned before it
Show(a, s) == IF a.exit = "error" THEN a ELSE [a EXCEPT !.screen = s]

\* the component has handled the key: its state and the action it returned
Handled(a, field, out) ==
    [a EXCEPT ![field] = Some(out.state), !.emitted = out.action]

\* handle_profiles_screen
handle_profiles_screen(a, key) ==
    IF ~IsSome(a.profiles_state) THEN a
    ELSE LET After(out) ==
                LET b == Handled(a, "profiles_state", out)
                    act == Unwrap(out.action)
                IN  CASE ~IsSome(out.action) -> b
                      [] act.kind = "Leave" -> [b EXCEPT !.exit = "quit"]
                      [] act.kind = "Select" ->
                           Show(ReloadClients(b, act.id), Screen("Clients", act.id, None))
                      [] act.kind = "Delete" ->
                           IF Failing(b) THEN Failed(b, "delete_profile")
                           ELSE load_profiles_screen(
                                   [Called(b, "delete_profile") EXCEPT
                                       !.db = delete_profile(@, act.id)])
                      [] act.kind = "Edit" ->
                           LET profile == get_profile(b.db, act.id)
                           IN  IF Failing(b) \/ ~IsSome(profile)
                               THEN Failed(b, "get_profile")
                               ELSE [Called(b, "get_profile") EXCEPT
                                       !.profile_wizard_state = Some(
                                           ProfileWizardStateFromExisting(Unwrap(profile))),
                                       !.screen = Screen("ProfileWizard", 0, None)]
                      [] act.kind = "New" ->
                           [b EXCEPT !.profile_wizard_state = Some(ProfileWizardStateNew),
                                     !.screen = Screen("ProfileWizard", 0, None)]
         IN  After(handle_profiles_input(Unwrap(a.profiles_state), key))

\* handle_clients_screen
handle_clients_screen(a, key) ==
    IF ~IsSome(a.clients_state) THEN a
    ELSE LET After(out) ==
                LET b == Handled(a, "clients_state", out)
                    act == Unwrap(out.action)
                    profile_id == out.state.profile_id
                IN  CASE ~IsSome(out.action) -> b
                      [] act.kind = "Leave" -> load_profiles_screen(b)
                      [] act.kind = "Select" ->
                           Show(ReloadProjects(b, act.id), Screen("Projects", act.id, None))
                      [] act.kind = "Delete" ->
                           IF Failing(b) THEN Failed(b, "delete_client")
                           ELSE ReloadClients(
                                   [Called(b, "delete_client") EXCEPT
                                       !.db = delete_client(@, act.id)], profile_id)
                      [] act.kind = "Edit" ->
                           LET client == get_client(b.db, act.id)
                           IN  IF Failing(b) \/ ~IsSome(client)
                               THEN Failed(b, "get_client")
                               ELSE [Called(b, "get_client") EXCEPT
                                       !.client_wizard_state = Some(
                                           ClientWizardStateFromExisting(Unwrap(client))),
                                       !.screen = Screen("ClientWizard",
                                                         Unwrap(client).profile_id, None)]
                      [] act.kind = "New" ->
                           [b EXCEPT !.client_wizard_state =
                                       Some(ClientWizardStateNew(profile_id)),
                                     !.screen = Screen("ClientWizard", profile_id, None)]
         IN  After(handle_clients_input(Unwrap(a.clients_state), key))

\* handle_projects_screen
handle_projects_screen(a, key) ==
    IF ~IsSome(a.projects_state) THEN a
    ELSE LET After(out) ==
                LET b == Handled(a, "projects_state", out)
                    act == Unwrap(out.action)
                    client_id == out.state.client_id
                IN  CASE ~IsSome(out.action) -> b
                      [] act.kind = "Leave" ->
                           LET client == get_client(b.db, client_id)
                           IN  IF Failing(b) \/ ~IsSome(client)
                               THEN Failed(b, "get_client")
                               ELSE Show(ReloadClients(Called(b, "get_client"),
                                                       Unwrap(client).profile_id),
                                         Screen("Clients", Unwrap(client).profile_id, None))
                      [] act.kind = "Select" ->
                           Show(ReloadInvoices(b, act.id), Screen("Invoices", act.id, None))
                      [] act.kind = "Delete" ->
                           IF Failing(b) THEN Failed(b, "delete_project")
                           ELSE ReloadProjects(
                                   [Called(b, "delete_project") EXCEPT
                                       !.db = delete_project(@, act.id)], client_id)
                      [] act.kind = "Edit" ->
                           LET project == get_project(b.db, act.id)
                           IN  IF Failing(b) \/ ~IsSome(project)
                               THEN Failed(b, "get_project")
                               ELSE [Called(b, "get_project") EXCEPT
                                       !.project_wizard_state = Some(
                                           ProjectWizardStateFromExisting(Unwrap(project))),
                                       !.screen = Screen("ProjectWizard",
                                                         Unwrap(project).client_id, None)]
                      [] act.kind = "New" ->
                           [b EXCEPT !.project_wizard_state =
                                       Some(ProjectWizardStateNew(client_id)),
                                     !.screen = Screen("ProjectWizard", client_id, None)]
         IN  After(handle_projects_input(Unwrap(a.projects_state), key))

\* handle_profile_wizard_screen
handle_profile_wizard_screen(a, key) ==
    IF ~IsSome(a.profile_wizard_state) THEN a
    ELSE LET After(out) ==
                LET b == Handled(a, "profile_wizard_state", out)
                    act == Unwrap(out.action)
                IN  CASE ~IsSome(out.action) -> b
                      [] act.kind = "Cancel" -> load_profiles_screen(b)
                      [] act.kind = "Save" ->
                           LET profile == act.entity
                               call == IF profile.id = 0 THEN "create_profile"
                                       ELSE "update_profile"
                           IN  IF Failing(b) THEN Failed(b, call)
                               ELSE load_profiles_screen(
                                   IF profile.id = 0
                                   THEN [Called(b, call) EXCEPT
                                           !.db = create_profile(@, b.serial.profiles, profile),
                                           !.serial.profiles = @ + 1]
                                   ELSE [Called(b, call) EXCEPT
                                           !.db = update_profile(@, profile)])
         IN  After(handle_profile_wizard_input(Unwrap(a.profile_wizard_state), key))

\* handle_client_wizard_screen
handle_client_wizard_screen(a, key) ==
    IF ~IsSome(a.client_wizard_state) THEN a
    ELSE LET After(out) ==
                LET b == Handled(a, "client_wizard_state", out)
                    act == Unwrap(out.action)
                    profile_id == a.screen.id
                IN  CASE ~IsSome(out.action) -> b
                      [] act.kind = "Cancel" ->
                           Show(ReloadClients(b, profile_id),
                                Screen("Clients", profile_id, None))
                      [] act.kind = "Save" ->
                           LET client == act.entity
                               call == IF client.id = 0 THEN "create_client"
                                       ELSE "update_client"
                           IN  IF Failing(b) THEN Failed(b, call)
                               ELSE Show(ReloadClients(
                                   IF client.id = 0
                                   THEN [Called(b, call) EXCEPT
                                           !.db = create_client(@, b.serial.clients, client),
                                           !.serial.clients = @ + 1]
                                   ELSE [Called(b, call) EXCEPT
                                           !.db = update_client(@, client)],
                                   profile_id), Screen("Clients", profile_id, None))
         IN  After(handle_client_wizard_input(Unwrap(a.client_wizard_state), key))

\* handle_project_wizard_screen
handle_project_wizard_screen(a, key) ==
    IF ~IsSome(a.project_wizard_state) THEN a
    ELSE LET After(out) ==
                LET b == Handled(a, "project_wizard_state", out)
                    act == Unwrap(out.action)
                    client_id == out.state.client_id
                IN  CASE ~IsSome(out.action) -> b
                      [] act.kind = "Cancel" ->
                           Show(ReloadProjects(b, client_id),
                                Screen("Projects", client_id, None))
                      [] act.kind = "Save" ->
                           LET project == act.entity
                               call == IF project.id = 0 THEN "create_project"
                                       ELSE "update_project"
                           IN  IF Failing(b) THEN Failed(b, call)
                               ELSE Show(ReloadProjects(
                                   IF project.id = 0
                                   THEN [Called(b, call) EXCEPT
                                           !.db = create_project(@, b.serial.projects, project),
                                           !.serial.projects = @ + 1]
                                   ELSE [Called(b, call) EXCEPT
                                           !.db = update_project(@, project)],
                                   project.client_id),
                                   Screen("Projects", project.client_id, None))
         IN  After(handle_project_wizard_input(Unwrap(a.project_wizard_state), key))

\* handle_invoices_screen
handle_invoices_screen(a0, key, gen, sent) ==
    IF ~IsSome(a0.invoices_state) THEN a0
    ELSE LET a == IF IsSome(Unwrap(a0.invoices_state).email_wizard_state)
                  THEN force_close_email_wizard(a0) ELSE a0
             After(b) ==
                LET act == Unwrap(b.emitted)
                    state == Unwrap(b.invoices_state)
                IN  CASE b.exit = "error" \/ ~IsSome(b.emitted) -> b
                      [] act.kind = "Leave" ->
                           LET c == IF IsSome(state.email_wizard_state)
                                    THEN force_close_email_wizard(b) ELSE b
                               project == get_project(c.db, state.project_id)
                           IN  IF Failing(c) \/ ~IsSome(project)
                               THEN Failed(c, "get_project")
                               ELSE Show(ReloadProjects(Called(c, "get_project"),
                                                        Unwrap(project).client_id),
                                         Screen("Projects", Unwrap(project).client_id, None))
                      [] act.kind = "Edit" ->
                           LET invoice == get_invoice(b.db, act.id)
                               c == Fetch(b, "get_invoice", invoice)
                           IN  IF c.exit = "error" THEN c
                               ELSE IF Failing(c)
                               THEN Failed(c, "get_line_items_by_invoice")
                               ELSE [Called(c, "get_line_items_by_invoice") EXCEPT
                                       !.invoice_wizard_state = Some(InvoiceWizardStateNew(
                                           Unwrap(invoice).project_id, Some(act.id), invoice,
                                           Some(get_line_items_by_invoice(b.db, act.id)))),
                                       !.screen = Screen("InvoiceWizard",
                                           Unwrap(invoice).project_id, Some(act.id))]
                      [] act.kind = "New" ->
                           [b EXCEPT !.invoice_wizard_state =
                                       Some(InvoiceWizardStateNew(act.id, None, None, None)),
                                     !.screen = Screen("InvoiceWizard", act.id, None)]
                      [] OTHER -> b
         IN  After(handle_invoices_input(a, key, gen, sent))

\* handle_invoice_wizard_screen
handle_invoice_wizard_screen(a, key, stamp) ==
    IF ~IsSome(a.invoice_wizard_state) THEN a
    ELSE LET After(out) ==
                LET b == Handled(a, "invoice_wizard_state", out)
                    act == Unwrap(out.action)
                    project_id == a.screen.id
                IN  CASE ~IsSome(out.action) -> b
                      [] act.kind = "Cancel" ->
                           Show(ReloadInvoices(b, project_id),
                                Screen("Invoices", project_id, None))
                      [] act.kind = "Save" ->
                           IF Failing(b) THEN Failed(b, "save_invoice_with_line_items")
                           ELSE Show(ReloadInvoices(
                                   [Called(b, "save_invoice_with_line_items") EXCEPT
                                       !.db = save_invoice_with_line_items(@,
                                               b.serial.invoices, b.serial.items,
                                               act.entity, act.line_items),
                                       !.serial.invoices =
                                           IF act.entity.id = 0 THEN @ + 1 ELSE @,
                                       !.serial.items = @ + Len(act.line_items)],
                                   project_id), Screen("Invoices", project_id, None))
         IN  After(handle_invoice_wizard_input( Unwrap(a.invoice_wizard_state), key, stamp))

----------------------------------------------------------------------------
(* Navigator specifications: main() and the loop of run_app, one handler   *)
(* call per step; the handler's fail-th storage call fails.                *)

\* wizards opened in one run
MaxSessions == 1
\* characters in a text field
MaxLen == 1
\* characters in the rate and line-item inputs
MaxInput == 1
\* line items of an invoice draft
MaxItems == 1

\* two profiles; the first has a client with a project with an invoice
\* with a line item
NavDb == [TreeDb(1, 1, 1, 1, 1) EXCEPT !.profiles = @ \cup {SampleProfile(2)}]

\* a handler makes at most seven storage calls (the m key of the Invoices
\* screen)
MaxCalls == 7

ListKeys ==
    {Key("Esc"), Key("Enter"), Key("Up"), Key("Down"), Key("Tab"),
     Char("q"), Char("n"), Char("e"), Char("d"), Char("y"), Char("m")}
\* the keys that open, leave and save a wizard and type into its first field
NavWizardKeys == {Key("Esc"), Key("Enter"), Char("s")}
WizardKeys ==
    {Key("Esc"), Key("Enter"), Key("Up"), Key("Down"), Key("Backspace"),
     Char("s")}
InvoiceWizardKeys ==
    WizardKeys \cup {Key("Tab"), Char("a"), Char("e"), Char("d"), Char("1"),
                     Char(".")}
Stamps == {4242}
GenOutcomes == {"ok", "md_only", "no_md"}

IsWizard(s) ==
    s.tag \in {"ProfileWizard", "ClientWizard", "ProjectWizard", "InvoiceWizard"}

\* the texts being typed
Texts(a) ==
    CASE a.screen.tag = "ProfileWizard" ->
            LET p == Unwrap(a.profile_wizard_state).profile
            IN  {p.name, p.email, p.phonenumber, p.bank_name,
                 p.bank_account_number, p.bank_routing_number}
                \cup (IF IsSome(p.address) THEN {Unwrap(p.address)} ELSE {})
      [] a.screen.tag = "ClientWizard" ->
            LET c == Unwrap(a.client_wizard_state).client
            IN  {c.name, c.email, c.phone}
                \cup (IF IsSome(c.address) THEN {Unwrap(c.address)} ELSE {})
      [] a.screen.tag = "ProjectWizard" ->
            {Unwrap(a.project_wizard_state).project.name}
      [] OTHER -> {}

Inputs(a) ==
    IF a.screen.tag = "InvoiceWizard"
    THEN LET w == Unwrap(a.invoice_wizard_state)
         IN  {w.active_input}
             \cup (IF IsSome(w.editing_line_item)
                   THEN {Unwrap(w.editing_line_item).value} ELSE {})
    ELSE {}

Bounded(a) ==
    /\ \A t \in Texts(a) : Len(t) <= MaxLen
    /\ \A t \in Inputs(a) : Len(t) <= MaxInput
    /\ a.screen.tag = "InvoiceWizard" =>
            Len(Unwrap(a.invoice_wizard_state).line_items) <= MaxItems
    /\ a.sessions <= MaxSessions

\* the handler has returned: the loop goes on, breaks or returns the Err
Step(b) ==
    LET c == [b EXCEPT !.sessions =
                IF IsWizard(b.screen) /\ ~IsWizard(screen) THEN @ + 1 ELSE @]
    IN  Bounded(c) /\ Becomes(c)

\* main: load_profiles_screen(&mut app_state).await? before run_app
Booted(a) ==
    LET b == load_profiles_screen(a)
    IN  IF b.exit = "error" THEN b ELSE [b EXCEPT !.exit = "running"]

Start ==
    /\ exit = "init"
    /\ \E fail \in 0..1 : Step(Booted(App(fail)))

Running(tag) == exit = "running" /\ screen.tag = tag

\* the storage is only reached by some keys: a wizard's Esc and s, and a
\* list's keys other than Up, Down, Tab, d and n
WizardFails(key, n) ==
    IF key.code = "Esc" \/ IsChar(key, "s") THEN 0..n ELSE {0}
ListFails(key, n) ==
    IF key.code \in {"Up", "Down", "Tab"} \/ IsChar(key, "d") \/ IsChar(key, "n")
    THEN {0} ELSE 0..n

\* the generator and the mail relay are only asked by some keys
GenFor(key) == IF IsChar(key, "m") THEN GenOutcomes ELSE {"ok"}
SentFor(key) == IF key.code = "Enter" THEN BOOLEAN ELSE {TRUE}

ProfilesKey ==
    /\ Running("Profiles")
    /\ \E key \in ListKeys : \E fail \in ListFails(key, 2) :
        Step(handle_profiles_screen(App(fail), key))

ClientsKey ==
    /\ Running("Clients")
    /\ \E key \in ListKeys : \E fail \in ListFails(key, 2) :
        Step(handle_clients_screen(App(fail), key))

ProjectsKey ==
    /\ Running("Projects")
    /\ \E key \in ListKeys : \E fail \in ListFails(key, 2) :
        Step(handle_projects_screen(App(fail), key))

InvoicesKey ==
    /\ Running("Invoices")
    /\ \E key \in ListKeys : \E fail \in ListFails(key, MaxCalls) :
        \E gen \in GenFor(key), sent \in SentFor(key) :
            Step(handle_invoices_screen(App(fail), key, gen, sent))

ProfileWizardStep(keys) ==
    /\ Running("ProfileWizard")
    /\ \E key \in keys : \E fail \in WizardFails(key, 2) :
        Step(handle_profile_wizard_screen(App(fail), key))

ClientWizardStep(keys) ==
    /\ Running("ClientWizard")
    /\ \E key \in keys : \E fail \in WizardFails(key, 2) :
        Step(handle_client_wizard_screen(App(fail), key))

ProjectWizardStep(keys) ==
    /\ Running("ProjectWizard")
    /\ \E key \in keys : \E fail \in WizardFails(key, 2) :
        Step(handle_project_wizard_screen(App(fail), key))

InvoiceWizardStep(keys) ==
    /\ Running("InvoiceWizard")
    /\ \E key \in keys, stamp \in Stamps : \E fail \in WizardFails(key, 3) :
        Step(handle_invoice_wizard_screen(App(fail), key, stamp))

ProfileWizardKey == ProfileWizardStep(NavWizardKeys)
ClientWizardKey == ClientWizardStep(NavWizardKeys)
ProjectWizardKey == ProjectWizardStep(NavWizardKeys)
InvoiceWizardKey == InvoiceWizardStep(NavWizardKeys)

Init == Is(AppNew(NavDb)) /\ tx = None /\ res = NoCall

Next ==
    \/ Start
    \/ ProfilesKey
    \/ ClientsKey
    \/ ProjectsKey
    \/ InvoicesKey
    \/ ProfileWizardKey
    \/ ClientWizardKey
    \/ ProjectWizardKey
    \/ InvoiceWizardKey

Spec == Init /\ [][Next]_vars

----------------------------------------------------------------------------
(* Wizard specifications: a wizard has just been opened from its list      *)
(* screen, and every key of the wizard is drawn.                           *)

\* run_app's match on app_state.screen, no storage call failing
Dispatch(a, key) ==
    CASE a.screen.tag = "Profiles" -> handle_profiles_screen(a, key)
      [] a.screen.tag = "ProfileWizard" -> handle_profile_wizard_screen(a, key)
      [] a.screen.tag = "Clients" -> handle_clients_screen(a, key)
      [] a.screen.tag = "ClientWizard" -> handle_client_wizard_screen(a, key)
      [] a.screen.tag = "Projects" -> handle_projects_screen(a, key)
      [] a.screen.tag = "ProjectWizard" -> handle_project_wizard_screen(a, key)
      [] a.screen.tag = "Invoices" -> handle_invoices_screen(a, key, "ok", TRUE)
      [] a.screen.tag = "InvoiceWizard" ->
            handle_invoice_wizard_screen(a, key, 4242)

\* the application after the keys of path, each handled from a fresh ops log
RECURSIVE Run(_, _)
Run(a, path) ==
    IF path = <<>> THEN a
    ELSE Run(Dispatch([a EXCEPT !.ops = <<>>, !.emitted = None], Head(path)),
             Tail(path))

\* from the Profiles screen: n, e on either profile; Enter and then n or e
\* on the Clients screen; Enter twice and then n or e on the Projects
\* screen; Enter three times and then n or e on the Invoices screen
WizardPaths ==
    {<<Char("n")>>, <<Char("e")>>, <<Key("Down"), Char("e")>>,
     <<Key("Enter"), Char("n")>>, <<Key("Enter"), Char("e")>>,
     <<Key("Enter"), Key("Enter"), Char("n")>>,
     <<Key("Enter"), Key("Enter"), Char("e")>>,
     <<Key("Enter"), Key("Enter"), Key("Enter"), Char("n")>>,
     <<Key("Enter"), Key("Enter"), Key("Enter"), Char("e")>>}

Opened(path) == [Run(Booted(AppNew(NavDb)), path) EXCEPT !.sessions = 1]

WizardInit ==
    /\ \E path \in WizardPaths : Is(Opened(path))
    /\ tx = None
    /\ res = NoCall

ProfileWizardEdit == ProfileWizardStep(WizardKeys)
ClientWizardEdit == ClientWizardStep(WizardKeys)
ProjectWizardEdit == ProjectWizardStep(WizardKeys)

InvoiceWizardEdit == InvoiceWizardStep(InvoiceWizardKeys)

WizardNext ==
    \/ ProfileWizardEdit
    \/ ClientWizardEdit
    \/ ProjectWizardEdit
    \/ InvoiceWizardEdit

SpecWizard == WizardInit /\ [][WizardNext]_vars

----------------------------------------------------------------------------
(* Overlay specification: invoices::handle_input called on the Invoices    *)
(* state of a project, for the m key while no overlay exists and for every *)
(* key of the overlay while one exists.                                    *)

\* characters of the recipient address
MaxAddress == 3
\* tokens of the subject (the loaded subject has four)
MaxSubject == 4
\* tokens of the message (the loaded message has one)
MaxMessage == 1

ShiftTab == [Key("Tab") EXCEPT !.shift = TRUE]

OverlayKeys ==
    {Key("Esc"), Key("Enter"), Key("Tab"), ShiftTab, Key("Backspace"),
     Key("Down"), Char("@"), Char("a")}

\* the Invoices screen of the first project, reached from start-up
InvoicesOpened ==
    Run(Booted(AppNew(NavDb)), <<Key("Enter"), Key("Enter"), Key("Enter")>>)

OverlayInit ==
    /\ Is(InvoicesOpened)
    /\ tx = None
    /\ res = NoCall

HasOverlay(a) ==
    IsSome(a.invoices_state) /\ IsSome(Unwrap(a.invoices_state).email_wizard_state)

OverlayBounded(a) ==
    HasOverlay(a) =>
        /\ Len(Overlay(a).recipient_email) <= MaxAddress
        /\ Len(Overlay(a).subject) <= MaxSubject
        /\ Len(Overlay(a).message) <= MaxMessage

\* KeyCode::Char('m') of invoices::handle_input
StartEmailKey ==
    /\ Running("Invoices")
    /\ ~HasOverlay(App(0))
    /\ \E fail \in 0..MaxCalls, gen \in GenOutcomes :
        LET b == handle_invoices_input(App(fail), Char("m"), gen, TRUE)
        IN  OverlayBounded(b) /\ Becomes(b)

\* the overlay branch of invoices::handle_input
OverlayKey ==
    /\ Running("Invoices")
    /\ HasOverlay(App(0))
    /\ \E key \in OverlayKeys : \E sent \in SentFor(key) :
        LET b == handle_invoices_input(App(0), key, "ok", sent)
        IN  OverlayBounded(b) /\ Becomes(b)

OverlayNext ==
    \/ StartEmailKey
    \/ OverlayKey

SpecOverlay == OverlayInit /\ [][OverlayNext]_vars

----------------------------------------------------------------------------
(* Date specification: the project wizard opened on the stored project,   *)
(* its focus on the start date, every key of the date field drawn.        *)

\* the years that are typed: the ends of the accepted range, the years next
\* to them, and leap and common years between
DateYears == {1900, 2000, 2023, 2024, 2100}
TypedYears == DateYears \cup {1899, 2101}

DateKeys ==
    {Key("Right"), Key("Left"), Key("Backspace")}
        \cup {Char(Digits[i]) : i \in 1..Len(Digits)}

\* e on the stored project and Down to its start date
DateOpened ==
    [Run(Booted(AppNew(NavDb)),
         <<Key("Enter"), Key("Enter"), Char("e"), Key("Down")>>)
        EXCEPT !.sessions = 1]

DateInit ==
    /\ Is(DateOpened)
    /\ tx = None
    /\ res = NoCall

\* the year being typed is one of TypedYears
DateBounded(key) ==
    LET s == Unwrap(project_wizard_state).start_date_state
        buf == Append(s.current_date_input, key.c)
    IN  (s.editing /\ s.date_part = "Year" /\ key.code = "Char") =>
            \E y \in TypedYears : buf = SubSeq(Pad(y, 4), 1, Len(buf))

\* Enter: the start date enters or leaves edit mode
DateToggleKey ==
    /\ Running("ProjectWizard")
    /\ Becomes(handle_project_wizard_screen(App(0), Key("Enter")))

\* a digit, Left, Right or Backspace
DateEditKey ==
    /\ Running("ProjectWizard")
    /\ \E key \in DateKeys :
        /\ DateBounded(key)
        /\ Becomes(handle_project_wizard_screen(App(0), key))

DateNext ==
    \/ DateToggleKey
    \/ DateEditKey

SpecDate == DateInit /\ [][DateNext]_vars

----------------------------------------------------------------------------
(* Line item specification: the invoice wizard opened on the stored        *)
(* invoice, its line item being edited on the Hours field, every key of    *)
(* the line item editor drawn.                                             *)

\* characters of a line item's scratch text
MaxHoursText == 2

LineItemTextKeys ==
    {Key("Backspace"), Char("-"), Char("1"), Char("."), Char("e")}

\* e on the stored invoice, Up to the line items, Enter, e on the line item
\* and Tab from its description to its hours
HoursOpened ==
    [Run(Booted(AppNew(NavDb)),
         <<Key("Enter"), Key("Enter"), Key("Enter"), Char("e"), Key("Up"),
           Key("Enter"), Char("e"), Key("Tab")>>)
        EXCEPT !.sessions = 1]

HoursInit ==
    /\ Is(HoursOpened)
    /\ tx = None
    /\ res = NoCall

HoursBounded(a) ==
    LET w == Unwrap(a.invoice_wizard_state)
    IN  IsSome(w.editing_line_item) =>
            Len(Unwrap(w.editing_line_item).value) <= MaxHoursText

\* a character or Backspace: edit_current_field, or e on the list of items
LineItemTextKey ==
    /\ Running("InvoiceWizard")
    /\ \E key \in LineItemTextKeys :
        LET b == handle_invoice_wizard_screen(App(0), key, 4242)
        IN  HoursBounded(b) /\ Becomes(b)

\* Tab or Enter: next_field_in_line_item
LineItemCommitKey ==
    /\ Running("InvoiceWizard")
    /\ IsSome(Unwrap(invoice_wizard_state).editing_line_item)
    /\ \E key \in {Key("Tab"), Key("Enter")} :
        Becomes(handle_invoice_wizard_screen(App(0), key, 4242))

HoursNext ==
    \/ LineItemTextKey
    \/ LineItemCommitKey

SpecHours == HoursInit /\ [][HoursNext]_vars

----------------------------------------------------------------------------
(* Session specification: a wizard session as in the wizard specification, *)
(* and after it has ended on its list screen the n or e that enters the    *)
(* next one.                                                               *)

\* n or e on the list screen the first session ended on
Reenter ==
    /\ exit = "running"
    /\ ~IsWizard(screen)
    /\ sessions = 1
    /\ \E key \in {Char("n"), Char("e")} :
        LET b == Dispatch(App(0), key)
        IN  /\ IsWizard(b.screen)
            /\ Becomes([b EXCEPT !.sessions = 2])

SessionsNext ==
    \/ ProfileWizardEdit
    \/ ClientWizardEdit
    \/ ProjectWizardEdit
    \/ InvoiceWizardEdit
    \/ Reenter

SpecSessions == WizardInit /\ [][SessionsNext]_vars

----------------------------------------------------------------------------
(* Line item specification: the invoice wizard is in edit mode on its      *)
(* LineItems field, opened on a new invoice (no item), on the stored       *)
(* invoice (one item) or on an invoice with two stored items; items are    *)
(* added, edited, deleted and selected.                                    *)

MaxList == 3
MaxItemId == 5
MaxItemText == 1

ItemTextKeys == {Key("Backspace"), Char("1")}

\* the stored invoice with the line items 2 and 4
ItemsDb == [NavDb EXCEPT !.items = {SampleItem(2, 1), SampleItem(4, 1)}]

\* the application over t; the line item sequence has handed out every id
\* up to the largest stored one
ItemsApp(t) ==
    [AppNew(t) EXCEPT !.serial.items = 1 + CHOOSE n \in Ids(t.items) :
                                            \A k \in Ids(t.items) : k <= n]

\* Enter three times to the Invoices screen, n or e, Up from SubmitDate to
\* LineItems and Enter
ItemsOpened(t, open) ==
    [Run(Booted(ItemsApp(t)),
         <<Key("Enter"), Key("Enter"), Key("Enter"), open, Key("Up"),
           Key("Enter")>>)
        EXCEPT !.sessions = 1]

ItemsInit ==
    /\ \/ Is(ItemsOpened(NavDb, Char("n")))
       \/ Is(ItemsOpened(NavDb, Char("e")))
       \/ Is(ItemsOpened(ItemsDb, Char("e")))
    /\ tx = None
    /\ res = NoCall

\* the wizard shows the list of line items, no item being edited
InList ==
    /\ Running("InvoiceWizard")
    /\ Unwrap(invoice_wizard_state).current_field = "LineItems"
    /\ Unwrap(invoice_wizard_state).editing
    /\ ~IsSome(Unwrap(invoice_wizard_state).editing_line_item)

\* a line item is being edited
InItem ==
    /\ Running("InvoiceWizard")
    /\ IsSome(Unwrap(invoice_wizard_state).editing_line_item)

ItemKey(key) == Becomes(handle_invoice_wizard_screen(App(0), key, 4242))

\* a: add_line_item, while the list and its ids stay within the bounds
ItemAddKey ==
    /\ InList
    /\ LET items == Unwrap(invoice_wizard_state).line_items
       IN  /\ Len(items) < MaxList
           /\ items # <<>> => items[Len(items)].id < MaxItemId
    /\ ItemKey(Char("a"))

\* e: edit_line_item
ItemEditKey == InList /\ ItemKey(Char("e"))

\* d: delete_line_item
ItemDeleteKey == InList /\ ItemKey(Char("d"))

\* Up, Down: the selection moves in the list
ItemMoveKey == InList /\ \E key \in {Key("Up"), Key("Down")} : ItemKey(key)

\* a character or Backspace in the item editor: edit_current_field
ItemTextKey ==
    /\ InItem
    /\ \E key \in ItemTextKeys :
        /\ key.code = "Char" =>
            Len(Unwrap(Unwrap(invoice_wizard_state).editing_line_item).value)
                < MaxItemText
        /\ ItemKey(key)

\* Tab or Enter in the item editor: next_field_in_line_item
ItemCommitKey == InItem /\ \E key \in {Key("Tab"), Key("Enter")} : ItemKey(key)

\* Esc in edit mode leaves it; Enter on LineItems while browsing enters it
ItemToggleKey ==
    /\ Running("InvoiceWizard")
    /\ \/ Unwrap(invoice_wizard_state).editing /\ ItemKey(Key("Esc"))
       \/ ~Unwrap(invoice_wizard_state).editing /\ ItemKey(Key("Enter"))

\* s while browsing: Save, the storage call or a load after it may fail
ItemSaveKey ==
    /\ Running("InvoiceWizard")
    /\ ~Unwrap(invoice_wizard_state).editing
    /\ \E fail \in WizardFails(Char("s"), 3) :
        Becomes(handle_invoice_wizard_screen(App(fail), Char("s"), 4242))

LineItemsNext ==
    \/ ItemSaveKey
    \/ ItemAddKey
    \/ ItemEditKey
    \/ ItemDeleteKey
    \/ ItemMoveKey
    \/ ItemTextKey
    \/ ItemCommitKey
    \/ ItemToggleKey

SpecItems == ItemsInit /\ [][LineItemsNext]_vars

----------------------------------------------------------------------------
(* Save specification: Database::save_invoice_with_line_items called once  *)
(* with the invoice and the list of an Invoice wizard draft, one statement *)
(* of its transaction per step, any statement may fail.                    *)

\* where the loop over line_items goes: the next INSERT, or the commit
AfterItems(line_items, k) ==
    IF k > Len(line_items) THEN "commit" ELSE "insert_item"

\* let mut tx = self.pool.begin().await?; serial holds the next values of
\* the id sequences
SaveBegin(invoice, line_items, t, next) ==
    [kind |-> "save", id |-> invoice.id, t |-> t, invoice |-> invoice,
     line_items |-> line_items, invoice_id |-> 0, k |-> 1, serial |-> next,
     pc |-> "write_invoice"]

\* (mutant: the earlier line items of an existing invoice are kept)
SaveStepKeepItems(x) ==
    CASE x.pc = "write_invoice" ->
            IF x.invoice.id = 0
            THEN [x EXCEPT
                    !.t.invoices =
                        @ \cup {[x.invoice EXCEPT !.id = x.serial.invoices]},
                    !.invoice_id = x.serial.invoices,
                    !.serial.invoices = @ + 1,
                    !.pc = AfterItems(x.line_items, 1)]
            ELSE [x EXCEPT
                    !.t.invoices =
                        {IF r.id = x.invoice.id
                         THEN [r EXCEPT !.submit_date = x.invoice.submit_date,
                                        !.due_date = x.invoice.due_date,
                                        !.rate = x.invoice.rate,
                                        !.status = x.invoice.status]
                         ELSE r : r \in @},
                    !.invoice_id = x.invoice.id,
                    !.pc = "delete_items"]
      [] x.pc = "delete_items" ->
            [x EXCEPT !.pc = AfterItems(x.line_items, 1)]
      [] x.pc = "insert_item" ->
            [x EXCEPT
                !.t.items = @ \cup {InvoiceLineItem(x.serial.items, x.invoice_id,
                                        x.line_items[x.k].description,
                                        x.line_items[x.k].hours)},
                !.serial.items = @ + 1,
                !.k = @ + 1,
                !.pc = AfterItems(x.line_items, x.k + 1)]
      [] x.pc = "commit" -> [x EXCEPT !.pc = "committed"]
      [] OTHER -> x

\* (mutant: the UPDATE writes number and project_id as well)
SaveStepRenumbered(x) ==
    CASE x.pc = "write_invoice" ->
            IF x.invoice.id = 0
            THEN [x EXCEPT
                    !.t.invoices =
                        @ \cup {[x.invoice EXCEPT !.id = x.serial.invoices]},
                    !.invoice_id = x.serial.invoices,
                    !.serial.invoices = @ + 1,
                    !.pc = AfterItems(x.line_items, 1)]
            ELSE [x EXCEPT
                    !.t.invoices =
                        {IF r.id = x.invoice.id
                         THEN [r EXCEPT !.number = x.invoice.number,
                                        !.project_id = x.invoice.project_id,
                                        !.submit_date = x.invoice.submit_date,
                                        !.due_date = x.invoice.due_date,
                                        !.rate = x.invoice.rate,
                                        !.status = x.invoice.status]
                         ELSE r : r \in @},
                    !.invoice_id = x.invoice.id,
                    !.pc = "delete_items"]
      [] x.pc = "delete_items" ->
            [x EXCEPT !.t.items = {l \in @ : l.invoice_id # x.invoice_id},
                      !.pc = AfterItems(x.line_items, 1)]
      [] x.pc = "insert_item" ->
            [x EXCEPT
                !.t.items = @ \cup {InvoiceLineItem(x.serial.items, x.invoice_id,
                                        x.line_items[x.k].description,
                                        x.line_items[x.k].hours)},
                !.serial.items = @ + 1,
                !.k = @ + 1,
                !.pc = AfterItems(x.line_items, x.k + 1)]
      [] x.pc = "commit" -> [x EXCEPT !.pc = "committed"]
      [] OTHER -> x

\* One statement of the transaction.
SaveStep(x) ==
    CASE x.pc = "write_invoice" ->
            IF x.invoice.id = 0
            THEN [x EXCEPT
                    !.t.invoices =
                        @ \cup {[x.invoice EXCEPT !.id = x.serial.invoices]},
                    !.invoice_id = x.serial.invoices,
                    !.serial.invoices = @ + 1,
                    !.pc = AfterItems(x.line_items, 1)]
            ELSE [x EXCEPT
                    !.t.invoices =
                        {IF r.id = x.invoice.id
                         THEN [r EXCEPT !.submit_date = x.invoice.submit_date,
                                        !.due_date = x.invoice.due_date,
                                        !.rate = x.invoice.rate,
                                        !.status = x.invoice.status]
                         ELSE r : r \in @},
                    !.invoice_id = x.invoice.id,
                    !.pc = "delete_items"]
      [] x.pc = "delete_items" ->
            [x EXCEPT !.t.items = {l \in @ : l.invoice_id # x.invoice_id},
                      !.pc = AfterItems(x.line_items, 1)]
      [] x.pc = "insert_item" ->
            [x EXCEPT
                !.t.items = @ \cup {InvoiceLineItem(x.serial.items, x.invoice_id,
                                        x.line_items[x.k].description,
                                        x.line_items[x.k].hours)},
                !.serial.items = @ + 1,
                !.k = @ + 1,
                !.pc = AfterItems(x.line_items, x.k + 1)]
      [] x.pc = "commit" -> [x EXCEPT !.pc = "committed"]
      [] OTHER -> x

\* stored invoices carry a number and a status of their own
SaveTrees ==
    {[TreeDb(1, 1, 1, K, L) EXCEPT
        !.invoices = {[i EXCEPT !.number = 100 + i.id, !.status = status] :
                        i \in @}] :
        K \in 1..2, L \in 0..2, status \in {"Sent", "Paid"}}

\* the lists a wizard can hold: ids handed out by add_line_item
SaveLists ==
    {<<InvoiceLineItem(1, 0, Word, Num(2))>>,
     <<InvoiceLineItem(1, 0, Str0, Num(0)), InvoiceLineItem(2, 0, Word, Num(2))>>,
     <<InvoiceLineItem(1, 0, Word, Num(2)), InvoiceLineItem(2, 0, Str0, Num(0))>>}

\* a wizard opened on a stored invoice or on a new one, with dates, rate
\* and line items set
Edited(w, submit, due, rate, list) ==
    [w EXCEPT !.submit_date = submit, !.due_date = due, !.rate = rate,
              !.line_items = list]

SaveDrafts(t) ==
    {Edited(w, submit, Date(2024, 3, 31), rate, list) :
        w \in {InvoiceWizardStateNew(r.project_id, Some(r.id), Some(r),
                    Some(get_line_items_by_invoice(t, r.id))) : r \in t.invoices}
              \cup {InvoiceWizardStateNew(1, None, None, None)},
        submit \in {Today, Date(2024, 3, 1)},
        rate \in {Num(1), Num(3)},
        list \in SaveLists}

\* the call in progress: the invoice and the list handed to it as well
SaveCall(invoice, line_items, before) ==
    [op |-> "save_invoice_with_line_items", id |-> invoice.id,
     state |-> "open", before |-> before, at |-> "", invoice |-> invoice,
     line_items |-> line_items, next |-> serial]

SaveInit ==
    /\ \E t \in SaveTrees : Is(AppNew(t))
    /\ tx = None
    /\ res = NoCall

\* Some(InvoiceWizardAction::Save(invoice, line_items)): the call begins
BeginSave ==
    /\ Idle
    /\ \E w \in SaveDrafts(db) :
        /\ tx' = Some(SaveBegin(to_invoice(w, 4242), w.line_items, db, serial))
        /\ res' = SaveCall(to_invoice(w, 4242), w.line_items, db)
    /\ UNCHANGED <<db, serial, navVars>>

\* a statement of the open transaction succeeds
SaveAdvance ==
    /\ IsSome(tx)
    /\ Unwrap(tx).pc # "commit"
    /\ tx' = Some(SaveStep(Unwrap(tx)))
    /\ db' = PoolView(Unwrap(tx'), db)
    /\ UNCHANGED <<serial, res, navVars>>

\* tx.commit().await? succeeds
SaveCommit ==
    /\ IsSome(tx)
    /\ Unwrap(tx).pc = "commit"
    /\ db' = Unwrap(tx).t
    /\ serial' = Unwrap(tx).serial
    /\ tx' = None
    /\ res' = [res EXCEPT !.state = "ok"]
    /\ UNCHANGED navVars

SaveNext ==
    \/ BeginSave
    \/ SaveAdvance
    \/ SaveCommit
    \/ TxFail

SpecSave == SaveInit /\ [][SaveNext]_vars

----------------------------------------------------------------------------
(* Subtrees *)

ClientsUnder(t, P) == {c.id : c \in {r \in t.clients : r.profile_id \in P}}
ProjectsUnder(t, C) == {p.id : p \in {r \in t.projects : r.client_id \in C}}
InvoicesUnder(t, J) == {i.id : i \in {r \in t.invoices : r.project_id \in J}}
ItemsUnder(t, I) == {l.id : l \in {r \in t.items : r.invoice_id \in I}}

\* no row of t lies at or beneath one of the clients C (as they stood in b)
ClientsGone(t, b, C) ==
    LET J == ProjectsUnder(b, C)
        I == InvoicesUnder(b, J)
        L == ItemsUnder(b, I)
    IN  /\ Ids(t.clients) \cap C = {}
        /\ Ids(t.projects) \cap J = {}
        /\ Ids(t.invoices) \cap I = {}
        /\ Ids(t.items) \cap L = {}
        /\ ProjectsUnder(t, C) = {}
        /\ InvoicesUnder(t, J) = {}
        /\ ItemsUnder(t, I) = {}

----------------------------------------------------------------------------
(* Claims *)

\* C1: after delete_profile(p) commits, no profile p, no client of p, and no
\* project, invoice or line item beneath such a client remains; after
\* delete_client(c) commits, c and everything beneath it is gone.
C1_CascadeLeavesNoResidue ==
    /\ (res.op = "delete_profile" /\ res.state = "ok") =>
            /\ res.id \notin Ids(db.profiles)
            /\ ClientsUnder(db, {res.id}) = {}
            /\ ClientsGone(db, res.before, ClientsUnder(res.before, {res.id}))
    /\ (res.op = "delete_client" /\ res.state = "ok") =>
            ClientsGone(db, res.before, {res.id})

\* a committed delete_profile whose profile had line items four levels down
C1_Witness ==
    /\ res.op = "delete_profile"
    /\ res.state = "ok"
    /\ LET C == ClientsUnder(res.before, {res.id})
           I == InvoicesUnder(res.before, ProjectsUnder(res.before, C))
       IN  Cardinality(C) >= 2 /\ Cardinality(ItemsUnder(res.before, I)) >= 2
    /\ db.items # {}

\* C2: while a cascade delete is running, and after any of its steps (the
\* begin, a read, a delete, the commit) has failed, the committed rows are
\* exactly those present when it was called.
C2_FailedCascadeChangesNothing ==
    (res.op \in {"delete_profile", "delete_client"}
        /\ res.state \in {"open", "err"}) => db = res.before

\* the last DELETE of a delete_profile failed after the whole subtree had
\* been deleted inside the transaction
C2_Witness ==
    /\ res.op = "delete_profile"
    /\ res.state = "err"
    /\ res.at = "delete_root"
    /\ ItemsUnder(db, InvoicesUnder(db, ProjectsUnder(db,
            ClientsUnder(db, {res.id})))) # {}

\* C3: in every state of the Navigator every stored client, project, invoice
\* and line item references a parent row that exists.
C3_NoOrphans ==
    /\ \A c \in db.clients : c.profile_id \in Ids(db.profiles)
    /\ \A p \in db.projects : p.client_id \in Ids(db.clients)
    /\ \A i \in db.invoices : i.project_id \in Ids(db.projects)
    /\ \A l \in db.items : l.invoice_id \in Ids(db.invoices)

\* C4: after delete_invoice(i) no line item with invoice_id i remains.
C4_DeleteInvoiceRemovesItems ==
    (res.op = "delete_invoice" /\ res.state = "ok") =>
        ItemsUnder(db, {res.id}) = {}

\* the wizard whose Save or Cancel the step from screen handles, the call
\* that persists its entity, and the list screen that owns it
PersistCall(tag, id) ==
    CASE tag = "ProfileWizard" ->
            IF id = 0 THEN "create_profile" ELSE "update_profile"
      [] tag = "ClientWizard" ->
            IF id = 0 THEN "create_client" ELSE "update_client"
      [] tag = "ProjectWizard" ->
            IF id = 0 THEN "create_project" ELSE "update_project"
      [] tag = "InvoiceWizard" -> "save_invoice_with_line_items"

LoadCalls ==
    {"load_profiles", "load_clients_by_profile", "load_projects_by_client",
     "load_invoices_by_project", "get_project"}

\* the table a wizard writes, before and after the step
TableOf(tag, t) ==
    CASE tag = "ProfileWizard" -> t.profiles
      [] tag = "ClientWizard" -> t.clients
      [] tag = "ProjectWizard" -> t.projects
      [] tag = "InvoiceWizard" -> t.invoices

\* the columns of row r that a Save of entity e writes are those of e
Written(tag, r, e) ==
    CASE tag = "ProfileWizard" -> r = [e EXCEPT !.id = r.id]
      [] tag = "ClientWizard" ->
            /\ r.name = e.name /\ r.phone = e.phone
            /\ r.address = e.address /\ r.email = e.email
      [] tag = "ProjectWizard" ->
            /\ r.name = e.name /\ r.start_date = e.start_date
            /\ r.end_date = e.end_date
      [] tag = "InvoiceWizard" ->
            /\ r.submit_date = e.submit_date /\ r.due_date = e.due_date
            /\ r.rate = e.rate /\ r.status = e.status

\* in the step just taken the list screen owner is shown with the rows that
\* storage now holds for it
OwnerShown(tag, owner) ==
    CASE tag = "ProfileWizard" ->
            /\ screen' = Screen("Profiles", 0, None)
            /\ Unwrap(profiles_state').profiles = load_profiles(db')
      [] tag = "ClientWizard" ->
            /\ screen' = Screen("Clients", owner, None)
            /\ Unwrap(clients_state').profile_id = owner
            /\ Unwrap(clients_state').clients = load_clients_by_profile(db', owner)
      [] tag = "ProjectWizard" ->
            /\ screen' = Screen("Projects", owner, None)
            /\ Unwrap(projects_state').client_id = owner
            /\ Unwrap(projects_state').projects = load_projects_by_client(db', owner)
      [] tag = "InvoiceWizard" ->
            /\ screen' = Screen("Invoices", owner, None)
            /\ Unwrap(invoices_state').project_id = owner
            /\ Unwrap(invoices_state').invoices = load_invoices_by_project(db', owner)

ShownRows(tag) ==
    CASE tag = "ProfileWizard" -> Unwrap(profiles_state').profiles
      [] tag = "ClientWizard" -> Unwrap(clients_state').clients
      [] tag = "ProjectWizard" -> Unwrap(projects_state').projects
      [] tag = "InvoiceWizard" -> Unwrap(invoices_state').invoices

\* the parent the draft of the open wizard belongs to
OwnerOf(tag, e) ==
    CASE tag = "ProfileWizard" -> 0
      [] tag = "ClientWizard" -> e.profile_id
      [] tag = "ProjectWizard" -> e.client_id
      [] tag = "InvoiceWizard" -> e.project_id

Emitted(kind) == IsSome(emitted') /\ Unwrap(emitted').kind = kind

SaveHandled ==
    LET tag == screen.tag
        e == Unwrap(emitted').entity
        old == TableOf(tag, db)
        new == TableOf(tag, db')
    IN  /\ Len(ops') >= 1
        /\ ops'[1] = PersistCall(tag, e.id)
        /\ \A i \in 2..Len(ops') : ops'[i] \in LoadCalls
        /\ exit' = "error" => screen' = screen
        /\ exit' # "error" =>
            /\ Len(ops') >= 2
            /\ OwnerShown(tag, OwnerOf(tag, e))
            /\ IF e.id = 0
               THEN \E r \in new \ old :
                        /\ new = old \cup {r}
                        /\ r.id \notin Ids(old)
                        /\ r = [e EXCEPT !.id = r.id]
                        /\ \E k \in 1..Len(ShownRows(tag)) : ShownRows(tag)[k] = r
               ELSE /\ Ids(new) = Ids(old)
                    /\ \A r \in new :
                        IF r.id = e.id
                        THEN /\ Written(tag, r, e)
                             /\ \E k \in 1..Len(ShownRows(tag)) :
                                    ShownRows(tag)[k] = r
                        ELSE r \in old

\* C5: a step in which a wizard emits Save makes exactly one storage write,
\* as its first call (an insert when the entity's id is 0, an update of that
\* row otherwise), only loads follow it, and when they succeed the owning
\* list screen is shown with rows loaded after the write, the written row
\* among them.
C5_SaveThenReload == [][Emitted("Save") => SaveHandled]_vars

\* a new client has been inserted and the Clients screen shows it
C5_Witness ==
    /\ IsSome(emitted) /\ Unwrap(emitted).kind = "Save"
    /\ Unwrap(emitted).entity.id = 0
    /\ ops = <<"create_client", "load_clients_by_profile">>
    /\ screen.tag = "Clients"
    /\ Len(Unwrap(clients_state).clients) = 2

CancelHandled ==
    LET tag == screen.tag
        owner == CASE tag = "ProfileWizard" -> 0
                   [] tag = "ClientWizard" -> screen.id
                   [] tag = "ProjectWizard" ->
                        Unwrap(project_wizard_state).client_id
                   [] tag = "InvoiceWizard" -> screen.id
    IN  exit' # "error" => OwnerShown(tag, owner)

\* C6: no step taken on a wizard screen changes the stored rows unless the
\* wizard emits Save in it, and a step in which the wizard emits Cancel
\* shows the owning list screen with the rows loaded from storage.
C6_CancelWritesNothing ==
    [][/\ (IsWizard(screen) /\ ~Emitted("Save")) => db' = db
       /\ Emitted("Cancel") => (db' = db /\ CancelHandled)]_vars

\* a new profile's draft with a typed name was cancelled, back on Profiles
C6_Witness ==
    /\ emitted = CancelAction
    /\ screen.tag = "Profiles"
    /\ exit = "running"
    /\ Unwrap(profile_wizard_state).profile.id = 0
    /\ Unwrap(profile_wizard_state).profile.name # Str0
    /\ db = NavDb

\* the required fields of a profile, a client and a project are filled in
ProfileRequired(p) ==
    /\ p.name # Str0 /\ p.email # Str0 /\ p.phonenumber # Str0
    /\ p.bank_name # Str0 /\ p.bank_account_number # Str0
    /\ p.bank_routing_number # Str0
ClientRequired(c) == c.name # Str0 /\ c.email # Str0 /\ c.phone # Str0
ProjectRequired(p) == p.name # Str0

\* the s key changes nothing of the application b but the log of the handler
Ignored(b) ==
    /\ b.emitted = None
    /\ b.ops = <<>>
    /\ b.exit = exit
    /\ b.screen = screen
    /\ b.db = db
    /\ b.profile_wizard_state = profile_wizard_state
    /\ b.client_wizard_state = client_wizard_state
    /\ b.project_wizard_state = project_wizard_state

\* C7: a Save emitted by the Profile, Client or Project wizard carries an
\* entity whose required fields are all non-empty; the s key pressed while
\* browsing a draft with an empty required field emits nothing and changes
\* neither the draft, the screen nor the stored rows; and every stored
\* profile, client and project has its required fields non-empty.
C7_SaveOnlyWhenValid ==
    /\ (IsSome(emitted) /\ Unwrap(emitted).kind = "Save") =>
            LET e == Unwrap(emitted).entity
            IN  /\ "bank_name" \in DOMAIN e => ProfileRequired(e)
                /\ "phone" \in DOMAIN e => ClientRequired(e)
                /\ "start_date" \in DOMAIN e => ProjectRequired(e)
    /\ (Running("ProfileWizard") /\ ~Unwrap(profile_wizard_state).editing
            /\ ~ProfileRequired(Unwrap(profile_wizard_state).profile)) =>
            Ignored(handle_profile_wizard_screen(App(0), Char("s")))
    /\ (Running("ClientWizard") /\ ~Unwrap(client_wizard_state).editing
            /\ ~ClientRequired(Unwrap(client_wizard_state).client)) =>
            Ignored(handle_client_wizard_screen(App(0), Char("s")))
    /\ (Running("ProjectWizard") /\ ~Unwrap(project_wizard_state).editing
            /\ ~ProjectRequired(Unwrap(project_wizard_state).project)) =>
            Ignored(handle_project_wizard_screen(App(0), Char("s")))
    /\ \A p \in db.profiles : ProfileRequired(p)
    /\ \A c \in db.clients : ClientRequired(c)
    /\ \A p \in db.projects : ProjectRequired(p)

\* a new profile with all six required fields typed has been saved and is
\* stored
C7_Witness ==
    /\ IsSome(emitted) /\ Unwrap(emitted).kind = "Save"
    /\ "bank_name" \in DOMAIN Unwrap(emitted).entity
    /\ Unwrap(emitted).entity.id = 0
    /\ Cardinality(db.profiles) = 3
    /\ screen.tag = "Profiles"

\* the rate of an invoice draft: the text in the rate input when there is
\* one (no rate when it is not a number), the committed rate otherwise
DraftRate(w) ==
    IF w.active_input = Str0 THEN w.rate
    ELSE IF IsSome(ParseF64(w.active_input))
         THEN Unwrap(ParseF64(w.active_input)) ELSE Num(0)
DraftValid(w) == Len(w.line_items) >= 1 /\ ~DraftRate(w).neg /\ DraftRate(w).m > 0

\* C8: a Save emitted by the Invoice wizard carries an invoice with rate > 0
\* and at least one line item; the s key pressed while browsing emits Save
\* with the draft's rate and line items when the draft has a line item and
\* a rate > 0, and otherwise emits nothing, stays on the wizard, browsing,
\* with an error message, and writes nothing.
C8_InvoiceSaveOnlyWhenValid ==
    /\ (IsSome(emitted) /\ Unwrap(emitted).kind = "Save"
            /\ "rate" \in DOMAIN Unwrap(emitted).entity) =>
            /\ ~Unwrap(emitted).entity.rate.neg
            /\ Unwrap(emitted).entity.rate.m > 0
            /\ Len(Unwrap(emitted).line_items) >= 1
    /\ (Running("InvoiceWizard") /\ ~Unwrap(invoice_wizard_state).editing) =>
            LET w == Unwrap(invoice_wizard_state)
                b == handle_invoice_wizard_screen(App(0), Char("s"), 4242)
            IN  IF DraftValid(w)
                THEN /\ IsSome(b.emitted)
                     /\ Unwrap(b.emitted).kind = "Save"
                     /\ Unwrap(b.emitted).line_items = w.line_items
                     /\ Unwrap(b.emitted).entity.rate = DraftRate(w)
                ELSE /\ b.emitted = None
                     /\ b.ops = <<>>
                     /\ b.exit = exit
                     /\ b.screen = screen
                     /\ b.db = db
                     /\ IsSome(Unwrap(b.invoice_wizard_state).show_error)
                     /\ b.invoice_wizard_state =
                            Some([w EXCEPT !.show_error =
                                Unwrap(b.invoice_wizard_state).show_error])

\* the s key was refused on a draft with a rate but no line item: the wizard
\* is still shown, browsing, with the message
C8_Witness ==
    /\ Running("InvoiceWizard")
    /\ emitted = None
    /\ ~Unwrap(invoice_wizard_state).editing
    /\ IsSome(Unwrap(invoice_wizard_state).show_error)
    /\ Unwrap(invoice_wizard_state).line_items = <<>>
    /\ Unwrap(invoice_wizard_state).rate.m > 0

\* C9: at start-up and for every key of the screen in view, when the
\* handler's k-th storage call fails the handler makes no call after it, the
\* loop ends with the error and the screen is the one the key was pressed
\* on; and once the loop has ended with an error no handler runs again.
C9_StorageFailurePropagates ==
    /\ exit = "error" => ~ENABLED Next
    /\ exit = "init" =>
            LET b == Booted(App(1))
            IN  b.exit = "error" /\ b.screen = screen
    /\ exit = "running" =>
            \A key \in ListKeys \cup NavWizardKeys :
                LET ok == Dispatch(App(0), key)
                IN  \A fail \in 1..Len(ok.ops) :
                        LET b == Dispatch(App(fail), key)
                        IN  /\ b.exit = "error"
                            /\ b.screen = screen
                            /\ b.ops = SubSeq(ok.ops, 1, fail)

\* a client was deleted and the reload of the Clients list failed: the loop
\* has ended on the Clients screen
C9_Witness ==
    /\ exit = "error"
    /\ ops = <<"delete_client", "load_clients_by_profile">>
    /\ screen.tag = "Clients"
    /\ db.clients = {}

\* C10: a step taken on the Invoices screen while the overlay is open and not
\* marked for dismissal is the overlay's handling of the key (invoices.rs
\* handle_input run on the open overlay).
C10_OpenOverlayHandlesKey ==
    [][(/\ Running("Invoices")
        /\ IsSome(Unwrap(invoices_state).email_wizard_state)
        /\ ~Unwrap(Unwrap(invoices_state).email_wizard_state).dismissing)
        => \E key \in ListKeys, sent \in BOOLEAN :
                LET b == handle_invoices_input(App(0), key, "ok", sent)
                IN  /\ invoices_state' = b.invoices_state
                    /\ screen' = b.screen
                    /\ files' = b.files]_vars

----------------------------------------------------------------------------
(* The email overlay *)

\* the Invoices screen is in view with an overlay in its state
OverlayOpen ==
    /\ Running("Invoices")
    /\ IsSome(invoices_state)
    /\ IsSome(Unwrap(invoices_state).email_wizard_state)

\* C11: while the overlay is open the screen is Invoices(project), and the
\* Esc that cancels it leaves the Navigator on that same screen with the
\* loop running: it is not handled as Back to Projects.
C11_EscKeepsInvoicesScreen ==
    OverlayOpen =>
        LET b == handle_invoices_screen(App(0), Key("Esc"), "ok", TRUE)
        IN  /\ screen.tag = "Invoices"
            /\ b.exit = "running"
            /\ b.screen = screen

\* C12: while the loop runs and no overlay exists, no generated file, markdown
\* or rendered copy, is on disk.
C12_NoOverlayNoFiles ==
    (exit = "running" /\ ~(IsSome(invoices_state)
                            /\ IsSome(Unwrap(invoices_state).email_wizard_state)))
        => files = {}

\* what the claim asks of the message before Send
Sendable(e) ==
    /\ e.recipient_email # Str0
    /\ \E i \in 1..Len(e.recipient_email) : e.recipient_email[i] = "@"
    /\ e.subject # Str0

ValidationErrors ==
    {Some("Recipient email cannot be empty"), Some("Invalid email address"),
     Some("Subject cannot be empty")}

FocusAfter(f) ==
    CASE f = "RecipientEmail" -> "Subject"
      [] f = "Subject" -> "Message"
      [] f = "Message" -> "None"
      [] f = "None" -> "RecipientEmail"

FocusBefore(f) ==
    CASE f = "RecipientEmail" -> "None"
      [] f = "Subject" -> "RecipientEmail"
      [] f = "Message" -> "Subject"
      [] f = "None" -> "Message"

\* C14: on an open overlay Tab moves the focus to the next position of
\* RecipientEmail, Subject, Message, ready-to-send and Shift+Tab to the
\* previous one, wrapping around at both ends, so that Tab followed by
\* Shift+Tab restores the focus.
C14_FocusCycles ==
    OverlayOpen =>
        LET e == Overlay(App(0))
            tab == handle_email_input(e, Key("Tab")).state
            back == handle_email_input(e, ShiftTab).state
        IN  /\ tab.current_field = FocusAfter(e.current_field)
            /\ back.current_field = FocusBefore(e.current_field)
            /\ handle_email_input(tab, ShiftTab).state.current_field =
                    e.current_field

\* the attachment send_invoice_email looks for
AttachmentOf(e) ==
    IF IsSome(e.generated_pdf_path) THEN Unwrap(e.generated_pdf_path)
    ELSE PdfPath(Unwrap(e.invoice).number)

\* the ways a send fails: the relay refuses, the attachment is missing, or
\* the recipient is rejected when the message is built
SendFails(e, sent) ==
    \/ ~sent
    \/ AttachmentOf(e) \notin files
    \/ ~AddressOk(e.recipient_email)

----------------------------------------------------------------------------
(* The date field *)

\* the keys that type a rendering: a digit for a digit, Right for "-"
RenderKeys(text) ==
    [i \in 1..Len(text) |->
        IF text[i] = "-" THEN Key("Right") ELSE Char(text[i])]

\* the project wizard after the keys
RECURSIVE WizardTyped(_, _)
WizardTyped(w, keys) ==
    IF keys = <<>> THEN w
    ELSE WizardTyped(handle_project_wizard_input(w, Head(keys)).state,
                     Tail(keys))

\* C16: a start date field that is not in edit mode holds a date d of a year
\* in 1900..2100; after Enter and the keys of its own rendering (four year
\* digits, Right, two month digits, Right, two day digits) it holds d, the
\* project's start date is d and the scratch buffer is empty.
C16_DateRoundTrip ==
    (Running("ProjectWizard")
        /\ ~Unwrap(project_wizard_state).start_date_state.editing) =>
        LET w == Unwrap(project_wizard_state)
            f == w.start_date_state
            g == WizardTyped(w, <<Key("Enter")>>
                                \o RenderKeys(get_display_string(f)))
        IN  /\ f.date.y \in 1900..2100
            /\ Len(get_display_string(f)) = 10
            /\ g.start_date_state.editing
            /\ g.start_date_state.date = f.date
            /\ g.project.start_date = f.date
            /\ g.start_date_state.current_date_input = Str0

\* the field is in edit mode on the Day part with an empty buffer and holds
\* the last day of 2100
C16_Witness ==
    /\ Running("ProjectWizard")
    /\ Unwrap(project_wizard_state).start_date_state =
            [date |-> Date(2100, 12, 31), editing |-> TRUE,
             date_part |-> "Day", current_date_input |-> Str0]
    /\ Unwrap(project_wizard_state).project.start_date = Date(2100, 12, 31)

\* the Gregorian calendar in the claim's words
LeapYear(y) == (y % 4 = 0 /\ y % 100 # 0) \/ y % 400 = 0

MonthLength(y, m) ==
    IF m = 2 THEN (IF LeapYear(y) THEN 29 ELSE 28)
    ELSE IF m \in {4, 6, 9, 11} THEN 30 ELSE 31

\* the date field after two digits typed on it
TwoDigits(f, n) ==
    DateHandleInput(DateHandleInput(f, Char(Pad(n, 2)[1])), Char(Pad(n, 2)[2]))

\* C17: on the Day part with an empty buffer, 29 typed on a February date
\* makes the day 29 exactly when the year is a leap year (2024 and 2000, not
\* 2023, 1900 or 2100) and otherwise leaves the date unchanged; in every
\* month 00 and every two-digit day above the month's length leave the date
\* unchanged.
C17_DayAcceptedOnlyInMonth ==
    (Running("ProjectWizard")
        /\ Unwrap(project_wizard_state).start_date_state.editing
        /\ Unwrap(project_wizard_state).start_date_state.date_part = "Day"
        /\ Unwrap(project_wizard_state).start_date_state.current_date_input = Str0) =>
        LET f == Unwrap(project_wizard_state).start_date_state
            y == f.date.y
            m == f.date.m
        IN  /\ m = 2 =>
                /\ TwoDigits(f, 29).date =
                        IF LeapYear(y) THEN Date(y, 2, 29) ELSE f.date
                /\ y \in {2024, 2000} => TwoDigits(f, 29).date.d = 29
                /\ y \in {2023, 1900, 2100} => TwoDigits(f, 29).date = f.date
            /\ \A n \in 0..99 :
                (n = 0 \/ n > MonthLength(y, m)) =>
                    /\ TwoDigits(f, n).date = f.date
                    /\ TwoDigits(f, n).current_date_input = Str0

\* 29 was typed on a February date of 2024: the field holds 29 February
C17_Witness ==
    /\ Running("ProjectWizard")
    /\ Unwrap(project_wizard_state).start_date_state =
            [date |-> Date(2024, 2, 29), editing |-> TRUE,
             date_part |-> "Day", current_date_input |-> Str0]

----------------------------------------------------------------------------
(* The line item editor *)

\* the wizard is editing the Hours field of a line item
EditingHours ==
    /\ Running("InvoiceWizard")
    /\ IsSome(Unwrap(invoice_wizard_state).editing_line_item)
    /\ Unwrap(Unwrap(invoice_wizard_state).editing_line_item).field = "Hours"

\* C18: Tab or Enter on the Hours field commits the scratch text when it
\* parses as a non-negative number (the item's hours become that number and
\* the item editor closes); on any other text the hours are unchanged, an
\* error message is shown and the editor stays on Hours with the text kept.
C18_HoursCommitNonNegative ==
    EditingHours =>
        \A key \in {Key("Tab"), Key("Enter")} :
            LET w == Unwrap(invoice_wizard_state)
                it == Unwrap(w.editing_line_item)
                parsed == ParseF64(it.value)
                after == handle_invoice_wizard_input(w, key, 4242).state
            IN  IF IsSome(parsed) /\ (~Unwrap(parsed).neg \/ Unwrap(parsed).m = 0)
                THEN /\ after.line_items[it.idx + 1].hours = Unwrap(parsed)
                     /\ after.editing_line_item = None
                ELSE /\ after.line_items = w.line_items
                     /\ IsSome(after.show_error)
                     /\ after.editing
                     /\ after.editing_line_item = w.editing_line_item

----------------------------------------------------------------------------
(* Transient states of the Navigator *)

\* the wizard states that exist, and the overlay
Transients ==
    {f \in {"profile", "client", "project", "invoice"} :
        CASE f = "profile" -> IsSome(profile_wizard_state)
          [] f = "client" -> IsSome(client_wizard_state)
          [] f = "project" -> IsSome(project_wizard_state)
          [] f = "invoice" -> IsSome(invoice_wizard_state)}
    \cup (IF IsSome(invoices_state)
             /\ IsSome(Unwrap(invoices_state).email_wizard_state)
          THEN {"overlay"} ELSE {})

\* C19: at most one wizard or overlay state exists, and while a list screen
\* is in view no wizard state exists (the one that was left is gone).
C19_AtMostOneTransient ==
    exit = "running" =>
        /\ Cardinality(Transients) <= 1
        /\ ~IsWizard(screen) => Transients \subseteq {"overlay"}

----------------------------------------------------------------------------
(* Wizard sessions *)

Blank(text) == text = Str0
BlankOption(text) == text = None \/ text = Some(Str0)

\* a date field as it is before any key: not in edit mode, on the year, with
\* an empty buffer
FreshDate(s, date) ==
    s = [date |-> date, editing |-> FALSE, date_part |-> "Year",
         current_date_input |-> Str0]

\* the wizard on screen is in Browsing state on its first field with a blank
\* draft of id 0 (new is TRUE) or with the stored row id and nothing else
FreshWizard(new, id) ==
    CASE screen.tag = "ProfileWizard" ->
            LET w == Unwrap(profile_wizard_state)
            IN  /\ ~w.editing
                /\ w.current_field = "Name"
                /\ IF new
                   THEN /\ w.profile.id = 0
                        /\ Blank(w.profile.name) /\ Blank(w.profile.email)
                        /\ Blank(w.profile.phonenumber)
                        /\ BlankOption(w.profile.address)
                        /\ Blank(w.profile.bank_name)
                        /\ Blank(w.profile.bank_account_number)
                        /\ Blank(w.profile.bank_routing_number)
                   ELSE w.profile.id = id /\ w.profile \in db.profiles
      [] screen.tag = "ClientWizard" ->
            LET w == Unwrap(client_wizard_state)
            IN  /\ ~w.editing
                /\ w.current_field = "Name"
                /\ IF new
                   THEN /\ w.client.id = 0
                        /\ w.client.profile_id = screen.id
                        /\ Blank(w.client.name) /\ Blank(w.client.email)
                        /\ Blank(w.client.phone)
                        /\ BlankOption(w.client.address)
                   ELSE w.client.id = id /\ w.client \in db.clients
      [] screen.tag = "ProjectWizard" ->
            LET w == Unwrap(project_wizard_state)
            IN  /\ ~w.editing
                /\ w.current_field = "Name"
                /\ FreshDate(w.start_date_state, w.project.start_date)
                /\ FreshDate(w.end_date_state,
                        IF IsSome(w.project.end_date)
                        THEN Unwrap(w.project.end_date)
                        ELSE w.project.start_date)
                /\ IF new
                   THEN /\ w.project.id = 0
                        /\ w.project.client_id = screen.id
                        /\ Blank(w.project.name)
                        /\ w.project.start_date = Today
                        /\ w.project.end_date = None
                   ELSE w.project.id = id /\ w.project \in db.projects
      [] screen.tag = "InvoiceWizard" ->
            LET w == Unwrap(invoice_wizard_state)
            IN  /\ ~w.editing
                /\ w.current_field = "SubmitDate"
                /\ w.editing_line_item = None
                /\ Blank(w.active_input)
                /\ w.show_error = None
                /\ FreshDate(w.submit_date_state, w.submit_date)
                /\ FreshDate(w.due_date_state, w.due_date)
                /\ w.project_id = screen.id
                /\ IF new
                   THEN /\ w.invoice_id = None
                        /\ w.line_items = <<>>
                        /\ w.selected = None
                        /\ w.rate = Num(0)
                        /\ w.submit_date = Today
                   ELSE /\ w.invoice_id = Some(id)
                        /\ \E r \in db.invoices :
                            /\ r.id = id
                            /\ w.submit_date = r.submit_date
                            /\ w.due_date = r.due_date
                            /\ w.rate = r.rate
                        /\ w.line_items = get_line_items_by_invoice(db, id)
                        /\ w.selected = FirstSelected(w.line_items)

\* the wizard just entered is fresh, as the action the list returned asks
EnteredFresh ==
    /\ IsSome(emitted)
    /\ Unwrap(emitted).kind \in {"New", "Edit"}
    /\ FreshWizard(Unwrap(emitted).kind = "New", Unwrap(emitted).id)

\* C20: every step that enters a wizard from a list screen, after an earlier
\* session saved or cancelled, ends with the wizard in Browsing state on its
\* first field with no error message, holding a blank draft of id 0 for New
\* or the row now in storage for Edit: nothing typed, focused or shown in
\* the earlier session is in it.
C20_WizardStartsFresh ==
    [][(~IsWizard(screen) /\ IsWizard(screen')) => EnteredFresh']_vars

\* a new profile was typed and saved in the first session, and n has opened
\* the profile wizard again: the draft is blank, on its first field
C20_Witness ==
    /\ sessions = 2
    /\ Running("ProfileWizard")
    /\ emitted = Action("New", 0)
    /\ Cardinality(db.profiles) = 3
    /\ Unwrap(profile_wizard_state).profile.name = Str0
    /\ Unwrap(profile_wizard_state).current_field = "Name"

----------------------------------------------------------------------------
(* C21: Back undoes Select on the list screens *)

\* the application after Select (Enter) and after Select followed by Back
\* (Esc) on the list screen now shown, no storage call failing
Selected == Run(App(0), <<Key("Enter")>>)
SelectedThenBack == Run(App(0), <<Key("Enter"), Key("Esc")>>)
WentBack == Run(App(0), <<Key("Esc")>>)

\* the parent recorded in storage for the row whose list is shown
StoredParent(s) ==
    CASE s.tag = "Projects" -> Unwrap(get_client(db, s.id)).profile_id
      [] s.tag = "Invoices" -> Unwrap(get_project(db, s.id)).client_id

\* the parent id held by the list state behind a list screen
CarriedParent(a) ==
    CASE a.screen.tag = "Clients" -> Unwrap(a.clients_state).profile_id
      [] a.screen.tag = "Projects" -> Unwrap(a.projects_state).client_id

\* Back has shown the parent list of the list screen s
ReturnedToParentOf(a, s) ==
    /\ a.exit = "running"
    /\ a.screen = Screen(IF s.tag = "Projects" THEN "Clients" ELSE "Projects",
                         StoredParent(s), None)
    /\ CarriedParent(a) = StoredParent(s)

\* C21: on the Clients screen of profile p, Select of a client followed by
\* Back shows Clients(p) again, and Back shows Profiles; on the Projects
\* screen of client c, Select of a project followed by Back shows
\* Projects(c) again; and whenever Back leaves the Projects or Invoices
\* list, the screen and the list state it arrives at carry the parent id
\* stored for the client or project whose list was left.
C21_BackInvertsSelect ==
    /\ (Running("Clients") /\ ~Unwrap(clients_state).show_delete_confirmation) =>
          /\ WentBack.exit = "running" /\ WentBack.screen.tag = "Profiles"
          /\ Selected.screen.tag = "Projects" =>
                /\ SelectedThenBack.screen = screen
                /\ ReturnedToParentOf(SelectedThenBack, Selected.screen)
    /\ (Running("Projects") /\ ~Unwrap(projects_state).show_delete_confirmation) =>
          /\ ReturnedToParentOf(WentBack, screen)
          /\ Selected.screen.tag = "Invoices" =>
                /\ SelectedThenBack.screen = screen
                /\ CarriedParent(SelectedThenBack) = screen.id
                /\ StoredParent(Selected.screen) = screen.id
    /\ (Running("Invoices") /\ WentBack.screen.tag # "Invoices") =>
          ReturnedToParentOf(WentBack, screen)

\* the Projects screen has just been shown again by Back from an Invoices
\* screen that Select had opened from it
C21_Witness ==
    /\ Running("Projects")
    /\ ops = <<"get_project", "load_projects_by_client">>
    /\ Len(Unwrap(projects_state).projects) > 0
    /\ Selected.screen.tag = "Invoices"
    /\ SelectedThenBack.screen = screen

----------------------------------------------------------------------------
(* C22, C23: the order and the reach of the cascade's statements *)

\* the rows of the table `rows` that the open transaction has deleted
DeletedIn(rows) == res.before[rows] \ Unwrap(tx).t[rows]

\* the row the cascade was called for is still in the working copy
RootRemains ==
    res.id \in Ids(IF res.op = "delete_profile" THEN Unwrap(tx).t.profiles
                   ELSE Unwrap(tx).t.clients)

\* C22: at every step of an open delete_profile or delete_client
\* transaction, no deleted invoice has a line item left, no deleted project
\* has an invoice left, no deleted client has a project left, no deleted
\* profile has a client left, and once the row the call was made for is
\* deleted nothing is left to delete: the rows are those of the commit.
C22_ChildrenBeforeParents ==
    IsSome(tx) =>
        /\ \A i \in DeletedIn("invoices") : ItemsUnder(Unwrap(tx).t, {i.id}) = {}
        /\ \A p \in DeletedIn("projects") : InvoicesUnder(Unwrap(tx).t, {p.id}) = {}
        /\ \A c \in DeletedIn("clients") : ProjectsUnder(Unwrap(tx).t, {c.id}) = {}
        /\ \A p \in DeletedIn("profiles") : ClientsUnder(Unwrap(tx).t, {p.id}) = {}
        /\ ~RootRemains => Unwrap(tx).t = TxRun(Unwrap(tx)).t
        /\ RootRemains <=> Unwrap(tx).pc \notin {"commit", "committed"}

\* a delete_profile has deleted the invoices of one project while another
\* project of the profile still has its invoices and line items
C22_Witness ==
    /\ IsSome(tx)
    /\ res.op = "delete_profile"
    /\ DeletedIn("invoices") # {}
    /\ DeletedIn("projects") = {}
    /\ ItemsUnder(Unwrap(tx).t, InvoicesUnder(Unwrap(tx).t,
            ProjectsUnder(Unwrap(tx).t, ClientsUnder(Unwrap(tx).t, {res.id})))) # {}

\* the rows of `rows` in the tables t whose id is not in S
Outside(t, rows, S) == {r \in t[rows] : r.id \notin S}

\* the committed tables differ from the tables b of the call at most in the
\* profiles P and in the clients C and the rows beneath them
OnlySubtreeChanged(b, P, C) ==
    LET J == ProjectsUnder(b, C)
        I == InvoicesUnder(b, J)
        L == ItemsUnder(b, I)
    IN  /\ Outside(db, "profiles", P) = Outside(b, "profiles", P)
        /\ Outside(db, "clients", C) = Outside(b, "clients", C)
        /\ Outside(db, "projects", J) = Outside(b, "projects", J)
        /\ Outside(db, "invoices", I) = Outside(b, "invoices", I)
        /\ Outside(db, "items", L) = Outside(b, "items", L)

\* C23: after delete_profile(p) commits, every other profile and every
\* client, project, invoice and line item that was not beneath p is stored
\* exactly as it was when the call was made, and no row has been added;
\* after delete_client(c) commits the same holds for every profile and
\* every row that was not c or beneath c.
C23_CascadeFrame ==
    /\ (res.op = "delete_profile" /\ res.state = "ok") =>
            OnlySubtreeChanged(res.before, {res.id},
                               ClientsUnder(res.before, {res.id}))
    /\ (res.op = "delete_client" /\ res.state = "ok") =>
            OnlySubtreeChanged(res.before, {}, {res.id})

\* a committed delete_profile of a profile that had line items, while
\* another profile keeps its own clients and line items
C23_Witness ==
    /\ res.op = "delete_profile"
    /\ res.state = "ok"
    /\ ItemsUnder(res.before, InvoicesUnder(res.before,
            ProjectsUnder(res.before, ClientsUnder(res.before, {res.id})))) # {}
    /\ db.clients # {}
    /\ db.items # {}
    /\ db.items # res.before.items

----------------------------------------------------------------------------
(* C24..C26: typing a date, and what the field shows *)

\* the valid dates of the sampled years
TargetDates ==
    {Date(y, m, d) : y \in DateYears, m \in 1..12, d \in 1..31} \cap
        {t \in [y : DateYears, m : 1..12, d : 1..31] : ValidYmd(t.y, t.m, t.d)}

DigitKeys(n, w) == [i \in 1..w |-> Char(Pad(n, w)[i])]

\* four year digits, Right, two month digits, Right, two day digits
TypedDate(t) ==
    DigitKeys(t.y, 4) \o <<Key("Right")>> \o DigitKeys(t.m, 2)
        \o <<Key("Right")>> \o DigitKeys(t.d, 2)

\* the start date field has just entered edit mode
JustToggled ==
    /\ Running("ProjectWizard")
    /\ Unwrap(project_wizard_state).start_date_state.editing
    /\ Unwrap(project_wizard_state).start_date_state.date_part = "Year"
    /\ Unwrap(project_wizard_state).start_date_state.current_date_input = Str0

\* C24: from a date field that has just entered edit mode, whatever valid
\* date it holds, typing the year, Right, the month, Right and the day of
\* any valid date t of the years 1900..2100 leaves the field holding t.
C24_TypedDateIsHeld ==
    JustToggled =>
        \A t \in TargetDates :
            WizardTyped(Unwrap(project_wizard_state), TypedDate(t))
                .start_date_state.date = t

\* a calendar date, in the claim's words
CalendarDate(date) ==
    date.m \in 1..12 /\ date.d \in 1..MonthLength(date.y, date.m)

\* the date field after the digit c completes the entry of its Year
\* (three digits typed) or Month (one digit typed) part, and the number
\* the entry then reads
Completing(f) ==
    /\ f.editing
    /\ \/ f.date_part = "Year" /\ Len(f.current_date_input) = 3
       \/ f.date_part = "Month" /\ Len(f.current_date_input) = 1
Entered(f, c) == ParseDigits(Append(f.current_date_input, c))

\* the date the completed entry asks for
Asked(f, c) ==
    IF f.date_part = "Year" THEN Date(Entered(f, c), f.date.m, f.date.d)
    ELSE Date(f.date.y, Entered(f, c), f.date.d)

\* the entry is in range and the current day exists in the month asked for
Acceptable(f, c) ==
    /\ f.date_part = "Year" => Entered(f, c) \in 1900..2100
    /\ CalendarDate(Asked(f, c))

\* C25: the start date field always holds a calendar date of a year in
\* 1900..2100 (the year it started with is one); a digit that completes a
\* year or month entry stores the date asked for when the year is in
\* 1900..2100, the month in 1..12 and the current day exists in that month
\* and year, and otherwise changes nothing but the scratch buffer, which is
\* emptied in both cases; no action is emitted.
C25_DateStaysValid ==
    Running("ProjectWizard") =>
        LET w == Unwrap(project_wizard_state)
            f == w.start_date_state
        IN  /\ CalendarDate(f.date)
            /\ f.date.y \in 1900..2100
            /\ Completing(f) =>
                \A i \in 1..Len(Digits) :
                    LET out == handle_project_wizard_input(w, Char(Digits[i]))
                        date == IF Acceptable(f, Digits[i])
                                THEN Asked(f, Digits[i]) ELSE f.date
                    IN  /\ out.action = None
                        /\ out.state =
                            [w EXCEPT !.start_date_state.current_date_input = Str0,
                                      !.start_date_state.date = date,
                                      !.project.start_date = date]

\* the field holds 29 February 2024 and 202 has been typed on its Year
\* part: the digit 3 completes a year in which the day does not exist
C25_Witness ==
    /\ Running("ProjectWizard")
    /\ Unwrap(project_wizard_state).start_date_state =
            [date |-> Date(2024, 2, 29), editing |-> TRUE,
             date_part |-> "Year", current_date_input |-> <<"2", "0", "2">>]

\* the bracketed scratch text, or the placeholder of the part when the
\* scratch is empty
Bracketed(f) ==
    IF f.current_date_input # Str0
    THEN <<"[">> \o f.current_date_input \o <<"]">>
    ELSE CASE f.date_part = "Year" -> <<"[", "Y", "Y", "Y", "Y", "]">>
           [] f.date_part = "Month" -> <<"[", "M", "M", "]">>
           [] f.date_part = "Day" -> <<"[", "D", "D", "]">>

\* the digits of one part, or the bracketed text when the part is focused
PartShown(f, part, digits) ==
    IF f.editing /\ f.date_part = part THEN Bracketed(f) ELSE digits

\* C26: the date field renders as YYYY-MM-DD when it is not in edit mode;
\* in edit mode the focused part is shown as the bracketed scratch text (or
\* [YYYY], [MM], [DD] when the scratch is empty) in place of its digits, the
\* other two parts as their digits: 2024-03-15 on Month with an empty
\* scratch renders as 2024-[MM]-15.
C26_RenderReplacesFocusedPart ==
    Running("ProjectWizard") =>
        LET f == Unwrap(project_wizard_state).start_date_state
        IN  get_display_string(f) =
                PartShown(f, "Year", Pad(f.date.y, 4)) \o <<"-">>
                    \o PartShown(f, "Month", Pad(f.date.m, 2)) \o <<"-">>
                    \o PartShown(f, "Day", Pad(f.date.d, 2))

----------------------------------------------------------------------------
(* C27: Save, Cancel and the field focus belong to the Browsing state *)

\* the state of the wizard on screen
Draft(a) ==
    CASE a.screen.tag = "ProfileWizard" -> Unwrap(a.profile_wizard_state)
      [] a.screen.tag = "ClientWizard" -> Unwrap(a.client_wizard_state)
      [] a.screen.tag = "ProjectWizard" -> Unwrap(a.project_wizard_state)
      [] a.screen.tag = "InvoiceWizard" -> Unwrap(a.invoice_wizard_state)

\* every key drawn in the wizard specification
EveryWizardKey == WizardKeys \cup InvoiceWizardKeys

\* the key was handled inside the wizard: nothing emitted, no storage call,
\* the wizard still on screen with the focus on the same field
KeptInField(b) ==
    /\ b.emitted = None
    /\ b.ops = <<>>
    /\ b.db = db
    /\ b.exit = "running"
    /\ b.screen = screen
    /\ Draft(b).current_field = Draft(App(0)).current_field

\* C27: while a field of any of the four wizards is being edited, no key
\* emits Save or Cancel, reaches the storage, leaves the wizard or moves the
\* focus to another field (s, Up and Down included), and Esc puts the
\* wizard back in the Browsing state.
C27_SaveCancelFocusOnlyBrowsing ==
    (exit = "running" /\ IsWizard(screen) /\ Draft(App(0)).editing) =>
        /\ \A key \in EveryWizardKey : KeptInField(Dispatch(App(0), key))
        /\ ~Draft(Dispatch(App(0), Key("Esc"))).editing

\* the s key was typed into the name of a new profile being edited
C27_Witness ==
    /\ Running("ProfileWizard")
    /\ Unwrap(profile_wizard_state).editing
    /\ Unwrap(profile_wizard_state).current_field = "Name"
    /\ Unwrap(profile_wizard_state).profile.id = 0
    /\ Unwrap(profile_wizard_state).profile.name = <<"s">>

----------------------------------------------------------------------------
(* C28..C30: the line items of the invoice wizard *)

\* the ids of the items of a list are pairwise distinct
DistinctIds(items) ==
    \A i, j \in 1..Len(items) : i # j => items[i].id # items[j].id

\* w is a wizard showing `items`, and v is w after Add
Added(w, v) ==
    /\ Len(v.line_items) = Len(w.line_items) + 1
    /\ SubSeq(v.line_items, 1, Len(w.line_items)) = w.line_items
    /\ v.line_items[Len(v.line_items)].description = Str0
    /\ v.line_items[Len(v.line_items)].hours = Num(0)
    /\ v.selected = Some(Len(w.line_items))
    /\ v.editing_line_item = EditingItem(Len(w.line_items), "Description", Str0)
    /\ v.editing /\ v.current_field = "LineItems"
    /\ DistinctIds(v.line_items)

\* C28: on the list of line items the a key appends an item with an empty
\* description and 0 hours after the items already there, selects it and
\* opens the item editor on its Description with an empty scratch text; in
\* every state of the wizard, whatever items were added, edited and deleted
\* (starting from no item or from stored items in ascending id order), no
\* two items of the list have the same id.
C28_AddAppendsDistinctId ==
    Running("InvoiceWizard") =>
        /\ DistinctIds(Unwrap(invoice_wizard_state).line_items)
        /\ InList =>
            Added(Unwrap(invoice_wizard_state),
                  handle_invoice_wizard_input(Unwrap(invoice_wizard_state),
                                              Char("a"), 4242).state)

\* a third item has just been added to a list whose first item, the stored
\* item 1, had been deleted: the editor is open on the new item 4
C28_Witness ==
    /\ InItem
    /\ Len(Unwrap(invoice_wizard_state).line_items) = 3
    /\ Unwrap(invoice_wizard_state).line_items[1].id = 2
    /\ Unwrap(invoice_wizard_state).line_items[2].id = 3
    /\ Unwrap(invoice_wizard_state).line_items[3].id = 4
    /\ Unwrap(invoice_wizard_state).editing_line_item =
            EditingItem(2, "Description", Str0)
    /\ Unwrap(invoice_wizard_state).line_items[3].description = Str0
    /\ Unwrap(invoice_wizard_state).line_items[3].hours = Num(0)

\* the selection of the list of w is absent when the list is empty and
\* otherwise an index of the list
SelectionInRange(w) ==
    IF w.line_items = <<>> THEN w.selected = None
    ELSE IsSome(w.selected) /\ Unwrap(w.selected) \in 0..(Len(w.line_items) - 1)

\* v is w after Delete of the selected item, the item at index k from 0
Deleted(w, v, k) ==
    /\ Len(v.line_items) = Len(w.line_items) - 1
    /\ \A i \in 1..Len(v.line_items) :
            v.line_items[i] = w.line_items[IF i <= k THEN i ELSE i + 1]
    /\ v.selected =
            IF Len(w.line_items) = 1 THEN None
            ELSE IF k = Len(w.line_items) - 1 THEN Some(k - 1)
            ELSE Some(k)

\* C29: in every state of the invoice wizard the selection is absent
\* exactly when there is no line item and is otherwise an index below the
\* number of items; on the list, the d key removes the selected item and
\* no other, leaves the remaining items in their order, and leaves the
\* same index selected, or the new last index when the last item was
\* removed (no selection when no item is left).
C29_SelectionFollowsList ==
    Running("InvoiceWizard") =>
        /\ SelectionInRange(Unwrap(invoice_wizard_state))
        /\ InList /\ IsSome(Unwrap(invoice_wizard_state).selected) =>
            Deleted(Unwrap(invoice_wizard_state),
                    handle_invoice_wizard_input(Unwrap(invoice_wizard_state),
                                                Char("d"), 4242).state,
                    Unwrap(Unwrap(invoice_wizard_state).selected))

\* the second of the items 1, 2 and 3 has been deleted: the items 1 and 3
\* remain in that order, and index 1, now item 3, is selected
C29_Witness ==
    /\ InList
    /\ Len(Unwrap(invoice_wizard_state).line_items) = 2
    /\ Unwrap(invoice_wizard_state).line_items[1].id = 1
    /\ Unwrap(invoice_wizard_state).line_items[2].id = 3
    /\ Unwrap(invoice_wizard_state).selected = Some(1)

\* the text is a number that is not negative
ValidHours(text) == IsSome(ParseF64(text)) /\ ~Unwrap(ParseF64(text)).neg

\* the items of v are those of w but for the item at index k from 0
OthersKept(w, v, k) ==
    /\ Len(v.line_items) = Len(w.line_items)
    /\ \A i \in 1..Len(w.line_items) :
            i # k + 1 => v.line_items[i] = w.line_items[i]
    /\ v.line_items[k + 1].id = w.line_items[k + 1].id
    /\ v.line_items[k + 1].invoice_id = w.line_items[k + 1].invoice_id

\* v is w after the commit of the Description being edited
DescriptionCommitted(w, v, it) ==
    /\ OthersKept(w, v, it.idx)
    /\ v.line_items[it.idx + 1].description = it.value
    /\ v.line_items[it.idx + 1].hours = w.line_items[it.idx + 1].hours
    /\ v.editing_line_item =
            EditingItem(it.idx, "Hours",
                        F64ToString(w.line_items[it.idx + 1].hours))
    /\ v.selected = w.selected

\* v is w after the commit of the Hours being edited
HoursCommitted(w, v, it) ==
    /\ OthersKept(w, v, it.idx)
    /\ v.line_items[it.idx + 1].hours = Unwrap(ParseF64(it.value))
    /\ v.line_items[it.idx + 1].description =
            w.line_items[it.idx + 1].description
    /\ v.editing_line_item = None
    /\ v.selected = w.selected

\* what Tab or Enter has to do to the wizard w whose item editor holds it
Committed(w, v, it) ==
    /\ v.editing /\ v.current_field = "LineItems"
    /\ it.field = "Description" => DescriptionCommitted(w, v, it)
    /\ (it.field = "Hours" /\ ValidHours(it.value)) => HoursCommitted(w, v, it)

\* C30: while a line item is being edited, Tab and Enter on Description
\* write the scratch text into that item's description and move the editor
\* to Hours with the item's current hours as scratch text; Tab and Enter on
\* Hours with a number that is not negative write it into the item's hours
\* and close the item editor, the wizard staying in edit mode on LineItems;
\* in both cases every other line item, and the rest of the item, is left
\* as it was.
C30_CommitAdvancesItemEditor ==
    InItem =>
        /\ Unwrap(Unwrap(invoice_wizard_state).editing_line_item).idx
                < Len(Unwrap(invoice_wizard_state).line_items)
        /\ \A key \in {Key("Tab"), Key("Enter")} :
            Committed(Unwrap(invoice_wizard_state),
                      handle_invoice_wizard_input(Unwrap(invoice_wizard_state),
                                                  key, 4242).state,
                      Unwrap(Unwrap(invoice_wizard_state).editing_line_item))

\* the description of the first of two items has been replaced by 1 and
\* committed: the editor is on its Hours, preset to the stored 2 hours
C30_Witness ==
    /\ InItem
    /\ Len(Unwrap(invoice_wizard_state).line_items) = 2
    /\ Unwrap(invoice_wizard_state).line_items[1].description = <<"1">>
    /\ Unwrap(invoice_wizard_state).line_items[2].description = Word
    /\ Unwrap(invoice_wizard_state).editing_line_item =
            EditingItem(0, "Hours", <<"2">>)

----------------------------------------------------------------------------
(* C31: nested editors live inside the wizard's edit mode *)

\* the date field f is in edit mode only while the wizard w edits `field`
DateEditorEnclosed(w, f, field) ==
    f.editing => (w.editing /\ w.current_field = field)

\* a line item of w is edited only while w edits LineItems, and it is an
\* item of the list
ItemEditorEnclosed(w) ==
    IsSome(w.editing_line_item) =>
        /\ w.editing
        /\ w.current_field = "LineItems"
        /\ Unwrap(w.editing_line_item).idx < Len(w.line_items)

\* C31: in the Project wizard a date field is in edit mode only if the
\* wizard is editing with the focus on that date field; in the Invoice
\* wizard the same holds for its two date fields, and a line item is being
\* edited only if the wizard is editing with the focus on LineItems and the
\* edited index is below the number of items; so no nested editor is active
\* while the wizard is browsing.
C31_NestedEditorsEnclosed ==
    /\ Running("ProjectWizard") =>
        /\ DateEditorEnclosed(Unwrap(project_wizard_state),
                Unwrap(project_wizard_state).start_date_state, "StartDate")
        /\ DateEditorEnclosed(Unwrap(project_wizard_state),
                Unwrap(project_wizard_state).end_date_state, "EndDate")
    /\ Running("InvoiceWizard") =>
        /\ DateEditorEnclosed(Unwrap(invoice_wizard_state),
                Unwrap(invoice_wizard_state).submit_date_state, "SubmitDate")
        /\ DateEditorEnclosed(Unwrap(invoice_wizard_state),
                Unwrap(invoice_wizard_state).due_date_state, "DueDate")
        /\ ItemEditorEnclosed(Unwrap(invoice_wizard_state))

\* the invoice wizard is browsing again, on LineItems, after its item
\* editor had been opened by Add on a new invoice and left with Esc
C31_Witness ==
    /\ Running("InvoiceWizard")
    /\ ~Unwrap(invoice_wizard_state).editing
    /\ Unwrap(invoice_wizard_state).current_field = "LineItems"
    /\ Unwrap(invoice_wizard_state).invoice_id = None
    /\ Len(Unwrap(invoice_wizard_state).line_items) = 1
    /\ Unwrap(invoice_wizard_state).editing_line_item = None
    /\ ~Unwrap(invoice_wizard_state).submit_date_state.editing

----------------------------------------------------------------------------
(* C32: Esc in the item editor *)

\* v is the wizard w after Esc in its item editor: browsing, the editor and
\* its scratch text gone, any message cleared, everything else as it was
ItemEditorLeft(w, v) ==
    v = [w EXCEPT !.editing = FALSE, !.editing_line_item = None,
                  !.show_error = None]

\* the s key on the browsing wizard v emits Save with the items of v
SavesItems(v, out) ==
    /\ IsSome(out.action)
    /\ Unwrap(out.action).kind = "Save"
    /\ Unwrap(out.action).line_items = v.line_items

\* the wizard w after the key
AfterKey(w, key) == handle_invoice_wizard_input(w, key, 4242).state

\* the item under the editor of w is as Add creates it
BlankItem(w) ==
    /\ w.line_items[Unwrap(w.editing_line_item).idx + 1].description = Str0
    /\ w.line_items[Unwrap(w.editing_line_item).idx + 1].hours = Num(0)

\* C32: Esc while a line item is being edited puts the Invoice wizard in
\* the Browsing state and changes nothing else but the item editor and its
\* scratch text, which are dropped: the list keeps every item, a blank one
\* created by Add included; and with such a blank item in the list the s
\* key then emits Save with that list whenever the draft's rate is above 0.
C32_EscKeepsAddedItem ==
    (Running("InvoiceWizard")
        /\ IsSome(Unwrap(invoice_wizard_state).editing_line_item)) =>
        /\ handle_invoice_wizard_input(Unwrap(invoice_wizard_state),
                                       Key("Esc"), 4242).action = None
        /\ ItemEditorLeft(Unwrap(invoice_wizard_state),
                          AfterKey(Unwrap(invoice_wizard_state), Key("Esc")))
        /\ (BlankItem(Unwrap(invoice_wizard_state))
                /\ Positive(DraftRate(Unwrap(invoice_wizard_state)))) =>
            SavesItems(AfterKey(Unwrap(invoice_wizard_state), Key("Esc")),
                handle_invoice_wizard_input(
                    AfterKey(Unwrap(invoice_wizard_state), Key("Esc")),
                    Char("s"), 4242))

\* a new invoice has been saved with the one blank line item Add created
C32_Witness ==
    /\ screen.tag = "Invoices"
    /\ IsSome(emitted)
    /\ Unwrap(emitted).kind = "Save"
    /\ "rate" \in DOMAIN Unwrap(emitted).entity
    /\ Unwrap(emitted).entity.id = 0
    /\ Len(Unwrap(emitted).line_items) = 1
    /\ Unwrap(emitted).line_items[1].description = Str0
    /\ Unwrap(emitted).line_items[1].hours = Num(0)
    /\ \E l \in db.items : l.description = Str0 /\ l.hours = Num(0)

----------------------------------------------------------------------------
(* C33: the rate that Save writes *)

\* the s key on the browsing wizard w saves exactly when w has a line item
\* and a committed rate above 0, and the invoice saved carries that rate
SavesCommittedRate(w, out) ==
    /\ IsSome(out.action) <=> (w.line_items # <<>> /\ Positive(w.rate))
    /\ IsSome(out.action) => Unwrap(out.action).entity.rate = w.rate

\* C33: whenever the Invoice wizard is browsing, the s key emits Save
\* exactly when the list has an item and the committed rate (the rate last
\* accepted with Enter, or the initial or stored one) is above 0, and the
\* invoice emitted carries the committed rate; text left in the Rate field
\* by Esc has no part in either.
C33_SaveUsesCommittedRate ==
    (Running("InvoiceWizard") /\ ~Unwrap(invoice_wizard_state).editing) =>
        SavesCommittedRate(Unwrap(invoice_wizard_state),
            handle_invoice_wizard_input(Unwrap(invoice_wizard_state),
                                        Char("s"), 4242))


----------------------------------------------------------------------------
(* C34 *)

\* the descriptions and hours of a list of line items, in its order
Described(list) ==
    [k \in 1..Len(list) |-> <<list[k].description, list[k].hours>>]

SaveOf(state) ==
    /\ res.op = "save_invoice_with_line_items"
    /\ res.id > 0
    /\ res.state = state

\* what a load of the invoice returns carries the dates and the rate given
LoadsEdited(t, invoice) ==
    /\ \E r \in t.invoices : r.id = invoice.id
    /\ \A r \in t.invoices :
        r.id = invoice.id =>
            /\ r.submit_date = invoice.submit_date
            /\ r.due_date = invoice.due_date
            /\ r.rate = invoice.rate

\* the stored line items of the invoice are the given list, none older
StoresList(t, before, id, line_items) ==
    /\ Described(get_line_items_by_invoice(t, id)) = Described(line_items)
    /\ Ids({l \in t.items : l.invoice_id = id}) \cap Ids(before.items) = {}

\* C34: after the Save of an existing invoice has committed, a load returns
\* the submit date, due date and rate that were saved, and the stored line
\* items of the invoice are exactly the saved list, in its order, none of
\* the earlier ones remaining; the outcome is the one the Save handler
\* applies in one step; while the transaction is open, and after any of
\* its statements failed, the stored rows are those from before the call.
C34_SaveReplacesInvoiceAtomically ==
    /\ SaveOf("ok") =>
        /\ LoadsEdited(db, res.invoice)
        /\ StoresList(db, res.before, res.id, res.line_items)
        /\ db = save_invoice_with_line_items(res.before, res.next.invoices,
                    res.next.items, res.invoice, res.line_items)
    /\ (SaveOf("open") \/ SaveOf("err")) => db = res.before

\* an invoice stored with two line items was saved with a later submit
\* date, another rate and a list that starts with a blank item
C34_Witness ==
    /\ SaveOf("ok")
    /\ Cardinality({l \in res.before.items : l.invoice_id = res.id}) = 2
    /\ res.invoice.submit_date = Date(2024, 3, 1)
    /\ res.invoice.rate = Num(3)
    /\ Len(res.line_items) = 2
    /\ res.line_items[1].description = Str0


----------------------------------------------------------------------------
(* C35 *)

\* the id of the row the committed call wrote: the one given, or the one
\* the INSERT was handed
WrittenId == IF res.id > 0 THEN res.id ELSE res.next.invoices

SaveCommitted ==
    /\ res.op = "save_invoice_with_line_items"
    /\ res.state = "ok"

\* the stored row of an existing invoice keeps number and project_id
KeepsNumberAndProject(before, t, id) ==
    \A old \in before.invoices : \A r \in t.invoices :
        (old.id = id /\ r.id = id) =>
            /\ r.number = old.number
            /\ r.project_id = old.project_id

\* C35: the invoice row a committed Save wrote has status "Draft", whether
\* it was inserted or updated; the update of an existing invoice replaces
\* the status stored before and leaves its number and project_id as they
\* were stored; no other invoice row changes.
C35_SaveWritesDraftKeepsNumber ==
    SaveCommitted =>
        /\ \E r \in db.invoices : r.id = WrittenId
        /\ \A r \in db.invoices : r.id = WrittenId => r.status = "Draft"
        /\ res.id > 0 => KeepsNumberAndProject(res.before, db, res.id)
        /\ {r \in db.invoices : r.id # WrittenId} =
           {r \in res.before.invoices : r.id # WrittenId}

\* an invoice stored as "Paid" under a number that is not its id was saved
C35_Witness ==
    /\ SaveCommitted
    /\ res.id > 0
    /\ \E old \in res.before.invoices :
        /\ old.id = res.id
        /\ old.status = "Paid"
        /\ old.number # res.invoice.number
    /\ \E r \in db.invoices : r.id = res.id /\ r.status = "Draft"


----------------------------------------------------------------------------
(* C36 *)

\* every row of a loaded list belongs to the parent the screen names
ListedUnder(list, parent, id) ==
    \A k \in 1..Len(list) : list[k][parent] = id

\* the component state the active screen dispatches to exists and was
\* built for the ids the screen tag carries
ScreenHasState ==
    CASE screen.tag = "Profiles" -> IsSome(profiles_state)
      [] screen.tag = "ProfileWizard" -> IsSome(profile_wizard_state)
      [] screen.tag = "Clients" ->
            /\ IsSome(clients_state)
            /\ Unwrap(clients_state).profile_id = screen.id
            /\ ListedUnder(Unwrap(clients_state).clients, "profile_id", screen.id)
      [] screen.tag = "ClientWizard" ->
            /\ IsSome(client_wizard_state)
            /\ Unwrap(client_wizard_state).profile_id = screen.id
      [] screen.tag = "Projects" ->
            /\ IsSome(projects_state)
            /\ Unwrap(projects_state).client_id = screen.id
            /\ ListedUnder(Unwrap(projects_state).projects, "client_id", screen.id)
      [] screen.tag = "ProjectWizard" ->
            /\ IsSome(project_wizard_state)
            /\ Unwrap(project_wizard_state).client_id = screen.id
      [] screen.tag = "Invoices" ->
            /\ IsSome(invoices_state)
            /\ Unwrap(invoices_state).project_id = screen.id
            /\ ListedUnder(Unwrap(invoices_state).invoices, "project_id", screen.id)
      [] screen.tag = "InvoiceWizard" ->
            /\ IsSome(invoice_wizard_state)
            /\ Unwrap(invoice_wizard_state).project_id = screen.id
            /\ Unwrap(invoice_wizard_state).invoice_id = screen.inv
      [] OTHER -> FALSE

\* C36: whenever run_app is about to dispatch a key, the component state of
\* the active screen exists and agrees with the ids of the screen tag, so
\* the handler of the screen reads the key and hands it to that component.
C36_ScreenAgreesWithState == exit = "running" => ScreenHasState

\* the Invoice wizard is open on a stored invoice of a project, while the
\* list states of the screens above it are still held
C36_Witness ==
    /\ Running("InvoiceWizard")
    /\ IsSome(screen.inv)
    /\ Unwrap(invoice_wizard_state).invoice_id = screen.inv
    /\ Unwrap(invoice_wizard_state).project_id = screen.id
    /\ IsSome(clients_state) /\ IsSome(projects_state)


----------------------------------------------------------------------------
(* C37 *)

ListTags == {"Profiles", "Clients", "Projects"}

\* the list component of a list screen, and the rows it shows
ListOf(tag, p, c, j) ==
    IF tag = "Profiles" THEN Unwrap(p)
    ELSE IF tag = "Clients" THEN Unwrap(c) ELSE Unwrap(j)
RowsOf(tag, s) ==
    IF tag = "Profiles" THEN s.profiles
    ELSE IF tag = "Clients" THEN s.clients ELSE s.projects
ListHandle(tag, s, key) ==
    IF tag = "Profiles" THEN handle_profiles_input(s, key)
    ELSE IF tag = "Clients" THEN handle_clients_input(s, key)
    ELSE handle_projects_input(s, key)

OnList == exit = "running" /\ screen.tag \in ListTags

IsDelete(action) == IsSome(action) /\ Unwrap(action).kind = "Delete"

\* what a key does to the list component s whose selected id is id
ConfirmedDelete(s, id, key, out) ==
    /\ IsDelete(out.action) =>
        /\ IsChar(key, "y")
        /\ s.show_delete_confirmation
        /\ out.action = Action("Delete", Unwrap(id))
    /\ (~s.show_delete_confirmation /\ out.state.show_delete_confirmation) =>
        /\ IsChar(key, "d")
        /\ IsSome(id)
        /\ out.action = None
    /\ s.show_delete_confirmation =>
        /\ out.state.selected = s.selected
        /\ out.action = None \/ IsDelete(out.action)
        /\ IsChar(key, "y") => IsDelete(out.action)
        /\ key.code = "Esc" =>
            out = Out([s EXCEPT !.show_delete_confirmation = FALSE], None)

\* Esc on the open dialog leaves the screen, the rows and the storage alone
EscStays(a) ==
    /\ a.screen = screen
    /\ a.exit = "running"
    /\ a.db = db
    /\ RowsOf(screen.tag, ListOf(screen.tag, a.profiles_state, a.clients_state,
                                 a.projects_state))
       = RowsOf(screen.tag, ListOf(screen.tag, profiles_state, clients_state,
                                   projects_state))

DialogKeys(tag, s) ==
    /\ s.show_delete_confirmation => IsSome(SelectedId(RowsOf(tag, s), s.selected))
    /\ \A key \in ListKeys :
        ConfirmedDelete(s, SelectedId(RowsOf(tag, s), s.selected), key,
                        ListHandle(tag, s, key))
    /\ s.show_delete_confirmation => EscStays(Dispatch(App(0), Key("Esc")))

\* a step of a list screen: a Delete is emitted for the id selected under
\* the open dialog, and a dialog that is open afterwards was open before
\* over the same selection and rows or was opened on this screen
DialogStep(tag, s, action, tag2, s2) ==
    /\ IsDelete(action) =>
        /\ s.show_delete_confirmation
        /\ action = Action("Delete", Unwrap(SelectedId(RowsOf(tag, s), s.selected)))
    /\ (tag2 \in ListTags /\ s2.show_delete_confirmation) =>
        /\ tag2 = tag
        /\ screen' = screen
        /\ s2.selected = s.selected
        /\ RowsOf(tag, s2) = RowsOf(tag, s)
        /\ action = None

\* C37: on the Profiles, Clients and Projects screens a Delete is emitted
\* only by y on an open confirmation dialog, the dialog is opened only by d
\* on a selected item, it is never open when a list screen is entered, and
\* while it is open no key changes the selection or emits New, Edit,
\* Select or Leave, so the id deleted is the id selected when the dialog
\* opened; Esc closes the dialog, emits nothing and stays on the screen.
C37_DeleteNeedsConfirmation ==
    [][OnList =>
        /\ DialogKeys(screen.tag, ListOf(screen.tag, profiles_state,
                                         clients_state, projects_state))
        /\ DialogStep(screen.tag,
                      ListOf(screen.tag, profiles_state, clients_state,
                             projects_state),
                      emitted',
                      IF exit' = "running" THEN screen'.tag ELSE "none",
                      ListOf(screen'.tag, profiles_state', clients_state',
                             projects_state'))]_vars

\* the second profile of the list has just been deleted through the dialog
C37_Witness ==
    /\ Running("Profiles")
    /\ emitted = Action("Delete", 2)
    /\ Ids(db.profiles) = {1}


----------------------------------------------------------------------------
(* C38 *)

\* the answer No: the dialog is closed and nothing is emitted
AnswersNo(s, out) ==
    /\ out.state = [s EXCEPT !.show_delete_confirmation = FALSE]
    /\ out.action = None

\* the n key emits nothing and changes nothing but the dialog flag
NoOnlyDialog(s, out) ==
    /\ [out.state EXCEPT !.show_delete_confirmation = FALSE]
       = [s EXCEPT !.show_delete_confirmation = FALSE]
    /\ out.action = None

DialogOpen ==
    /\ OnList
    /\ ListOf(screen.tag, profiles_state, clients_state,
              projects_state).show_delete_confirmation

\* C38: while the delete-confirmation dialog is shown on the Profiles,
\* Clients or Projects screen, the n key closes the dialog, deletes
\* nothing and emits no action.
C38_NClosesDialog ==
    DialogOpen =>
        /\ AnswersNo(ListOf(screen.tag, profiles_state, clients_state,
                            projects_state),
                     ListHandle(screen.tag,
                        ListOf(screen.tag, profiles_state, clients_state,
                               projects_state), Char("n")))
        /\ Dispatch(App(0), Char("n")).db = db

\* what holds of the n key under the open dialog: nothing is emitted,
\* nothing is deleted, and no field other than the dialog flag changes
C38_NEmitsNothing ==
    DialogOpen =>
        /\ NoOnlyDialog(ListOf(screen.tag, profiles_state, clients_state,
                               projects_state),
                        ListHandle(screen.tag,
                           ListOf(screen.tag, profiles_state, clients_state,
                                  projects_state), Char("n")))
        /\ Dispatch(App(0), Char("n")).db = db

\* the n key leaves the dialog as it is
C38_DialogStaysOpen ==
    DialogOpen =>
        Dispatch(App(0), Char("n")) = App(0)


----------------------------------------------------------------------------
(* C39 *)

\* the application a has quit, or quits within n further Esc presses, no
\* storage call failing
RECURSIVE QuitWithin(_, _)
QuitWithin(a, n) ==
    IF a.exit = "quit" THEN TRUE
    ELSE IF n = 0 \/ a.exit # "running" THEN FALSE
    ELSE QuitWithin(Run(a, <<Key("Esc")>>), n - 1)

EveryKey == ListKeys \cup EveryWizardKey \cup OverlayKeys

\* the Profiles screen with no confirmation dialog open
AtExit ==
    /\ screen.tag = "Profiles"
    /\ ~Unwrap(profiles_state).show_delete_confirmation

\* the key makes run_app return Ok
Quits(key) == Dispatch(App(0), key).exit = "quit"

----------------------------------------------------------------------------
(* C40 *)

\* the overlay held by an Option<InvoicesState>, as an Option
OverlayIn(invoices) ==
    IF IsSome(invoices) THEN Unwrap(invoices).email_wizard_state ELSE None

\* the overlay recorded no path although a file was written: the generator
\* failed after writing the markdown
HalfGenerated(overlay, fs) ==
    /\ IsSome(overlay)
    /\ Unwrap(overlay).generated_md_path = None
    /\ fs # {}

\* the overlay that has just been opened over a half generated invoice
\* shows the error
FailureShown ==
    (/\ OverlayIn(invoices_state) = None
     /\ files = {}
     /\ HalfGenerated(OverlayIn(invoices_state'), files'))
        => IsSome(Unwrap(OverlayIn(invoices_state')).show_error)

\* the overlay over a half generated invoice is closed: no file is left
FailureCleaned ==
    (/\ HalfGenerated(OverlayIn(invoices_state), files)
     /\ OverlayIn(invoices_state') = None)
        => files' = {}

\* C40: when the generator fails after the markdown file was written, the
\* overlay that opens shows an error, and whichever key closes that overlay
\* leaves no generated file on disk.
C40_FailedGenerationLeavesNothing ==
    [][FailureShown /\ FailureCleaned]_vars

\* what holds: the error is shown when the overlay opens
C40_FailureShowsError == [][FailureShown]_vars

====
